---- MODULE Spec2Model ----
(***************************************************************************)
(* Graph compilation and execution engine of the graph-based assistant:   *)
(* the workflow catalog (workflows, graphs, threads), the background task *)
(* that runs one thread (workflow_service.execute_workflow), the graph    *)
(* builder and driver (graph_service.GraphExecutor) and the step handlers *)
(* (llm_transform_service, canva_node_service, export_service).           *)
(*                                                                         *)
(* Strings are sequences of symbols: a symbol is one character, or one    *)
(* opaque chunk of text (an id, a URL, a JSON key with its colon).        *)
(***************************************************************************)
EXTENDS Integers, Sequences, FiniteSets, TLC

\* ----------------------------------------------------------------- bounds
\* Execution records (threads) created by execute requests.
MaxThreads == 2
\* Background-task runs per thread in SpecResubmit (the task function called
\* again for an execution id that already has a run).
MaxRuns == 2
\* Messages in a state handed to the condition router (SpecRouter).
MaxMsgs == 2
\* Key/value pairs of an object in a text handed to the parser (SpecParser).
MaxPairs == 2
\* Files uploaded into the upload directory (SpecUploads).
MaxUploads == 3
\* Calls a caller makes on the one executor it keeps (SpecExecutor).
MaxCalls == 3
\* Outgoing edges of the condition node of a graph handed to _build_graph
\* (SpecBuild).
MaxBranches == 3
\* Login requests and callback requests on the OAuth endpoints (SpecAuth).
MaxLogins == 2
MaxCallbacks == 3
\* Design operations run on the CanvaService singleton (SpecCanva).
MaxDesignOps == 3

\* ---------------------------------------------------------------- strings
\* Python None where a string is optional (str | None).
None == <<"<None>">>

EmptyText == <<>>

\* str.lower() on one symbol.
LowerSym(c) ==
    CASE c = "Y" -> "y"
      [] c = "E" -> "e"
      [] c = "S" -> "s"
      [] c = "T" -> "t"
      [] c = "R" -> "r"
      [] c = "U" -> "u"
      [] c = "N" -> "n"
      [] c = "O" -> "o"
      [] OTHER -> c

Lower(s) == [i \in 1..Len(s) |-> LowerSym(s[i])]

\* Python's `sub in s` for strings.
Contains(s, sub) ==
    \E i \in 0..(Len(s) - Len(sub)) :
        \A j \in 1..Len(sub) : s[i + j] = sub[j]

\* Python truthiness of a str | None value.
Truthy(s) == s # None /\ s # EmptyText

\* `a or b` on str | None values.
Or(a, b) == IF Truthy(a) THEN a ELSE b

\* The affirmative tokens of the condition router.
YesToken == <<"y", "e", "s">>
TrueToken == <<"t", "r", "u", "e">>

\* --------------------------------------------------------------- messages
\* A message that has not been through the add_messages reducer has no id (0).
HumanMessage(c) == [role |-> "human", content |-> c, id |-> 0]
AIMessage(c) == [role |-> "ai", content |-> c, id |-> 0]

\* A router that looks for the most recent AI message anywhere in the list.
RouterMostRecentAI(messages) ==
    LET ai == {i \in 1..Len(messages) : messages[i].role = "ai"}
    IN  IF \E i \in ai :
               /\ \A j \in ai : j <= i
               /\ \/ Contains(Lower(messages[i].content), YesToken)
                  \/ Contains(Lower(messages[i].content), TrueToken)
        THEN "true" ELSE "false"

\* The decision of the router closure of create_condition_router: the LAST
\* message of the list, and only when it is an AIMessage.
Router(messages) ==
    IF Len(messages) > 0 /\ messages[Len(messages)].role = "ai"
    THEN LET content == Lower(messages[Len(messages)].content)
         IN  IF Contains(content, YesToken) \/ Contains(content, TrueToken)
             THEN "true"
             ELSE "false"
    ELSE "false"

\* ------------------------------------------------------------------ dicts
\* A dict is a function from its keys; Python None where a dict is optional.
EmptyDict == [k \in {} |-> <<>>]
NoneDict == [none |-> TRUE]

\* d.get(k, default)
Get(d, k, default) == IF k \in DOMAIN d THEN d[k] ELSE default

\* {**a, **b}: the keys of b overwrite those of a.
Merge(a, b) ==
    [k \in DOMAIN a \cup DOMAIN b |-> IF k \in DOMAIN b THEN b[k] ELSE a[k]]

\* ------------------------------------------------- structured-output parser
Whitespace == {" ", "\n"}
\* The three-backtick delimiter of a fenced block, one symbol.
Fence == "<fence>"

RECURSIVE LStrip(_)
LStrip(s) == IF Len(s) > 0 /\ s[1] \in Whitespace THEN LStrip(Tail(s)) ELSE s

RECURSIVE RStrip(_)
RStrip(s) ==
    IF Len(s) > 0 /\ s[Len(s)] \in Whitespace
    THEN RStrip(SubSeq(s, 1, Len(s) - 1))
    ELSE s

\* str.strip()
Strip(s) == RStrip(LStrip(s))

\* s.find(sub, start): the 0-based index of the first occurrence at or after
\* start, -1 when there is none.
Find(s, sub, start) ==
    LET hits == {i \in start..(Len(s) - Len(sub)) :
                    \A j \in 1..Len(sub) : s[i + j] = sub[j]}
    IN  IF hits = {} THEN -1 ELSE CHOOSE i \in hits : \A h \in hits : i <= h

\* s[start:end] with Python's reading of a negative end.
Slice(s, start, end) ==
    LET e == IF end < 0 THEN Len(s) + end ELSE end
    IN  IF e <= start THEN <<>> ELSE SubSeq(s, start + 1, e)

\* JSON texts are made of these symbols: a key symbol stands for the quoted
\* key and its colon, a value symbol for one literal.
JsonKeys == {"K:enhanced_text", "K:design_intent", "K:canva_instructions", "K:note"}
JsonValues ==
    {"S:Hi", "S:greet", "S:empty", "S:fenced", "O:poster", "O:empty", "O:deep",
     "N:1", "null"}

\* A string literal whose text holds the three backticks is three symbols:
\* the literal up to them, the delimiter, the rest of the literal.
FencedText == <<"x", Fence, "y">>
FencedLiteral == <<"S<x", Fence, "y>S">>

KeyName(sym) ==
    CASE sym = "K:enhanced_text" -> "enhanced_text"
      [] sym = "K:design_intent" -> "design_intent"
      [] sym = "K:canva_instructions" -> "canva_instructions"
      [] OTHER -> "note"

JsonStr(s) == [t |-> "str", s |-> s, o |-> EmptyDict]
JsonObj(o) == [t |-> "obj", s |-> EmptyText, o |-> o]
JsonNum == [t |-> "num", s |-> EmptyText, o |-> EmptyDict]
JsonNull == [t |-> "null", s |-> EmptyText, o |-> EmptyDict]

PosterInstructions == [design_type |-> <<"poster">>, elements |-> <<>>]
DeepInstructions == [elements |-> <<"[[[...]]]">>]

\* json.loads of one value literal.
ValueOf(sym) ==
    CASE sym = "S:Hi" -> JsonStr(<<"H", "i">>)
      [] sym = "S:greet" -> JsonStr(<<"greet">>)
      [] sym = "S:empty" -> JsonStr(EmptyText)
      [] sym = "S:fenced" -> JsonStr(FencedText)
      [] sym = "O:poster" -> JsonObj(PosterInstructions)
      [] sym = "O:empty" -> JsonObj(EmptyDict)
      [] sym = "O:deep" -> JsonObj(DeepInstructions)
      [] sym = "N:1" -> JsonNum
      [] OTHER -> JsonNull

\* The scanner's tokens: a whole string literal is one value, whitespace
\* between tokens is skipped.
RECURSIVE Lex(_)
Lex(s) ==
    IF Len(s) = 0 THEN <<>>
    ELSE IF Len(s) >= 3 /\ SubSeq(s, 1, 3) = FencedLiteral
    THEN <<"S:fenced">> \o Lex(SubSeq(s, 4, Len(s)))
    ELSE IF s[1] \in Whitespace
    THEN Lex(Tail(s))
    ELSE <<s[1]>> \o Lex(Tail(s))

\* Whether the scanned tokens are one object: "{" pairs "}" with the pairs
\* separated by commas, and nothing after it.
WellFormedTokens(t) ==
    LET n == Len(t)
    IN  /\ n >= 2
        /\ t[1] = "{"
        /\ t[n] = "}"
        /\ \/ n = 2
           \/ /\ (n - 2) % 3 = 2
              /\ \A i \in 2..(n - 1) :
                    CASE (i - 2) % 3 = 0 -> t[i] \in JsonKeys
                      [] (i - 2) % 3 = 1 -> t[i] \in JsonValues
                      [] OTHER -> t[i] = ","

\* Whether json.loads accepts the text (the text is scanned once).
JsonWellFormed(text) == \E t \in {Lex(text)} : WellFormedTokens(t)

\* The object of well-formed tokens: of a repeated key the last value stays.
ObjectOfTokens(t) ==
    LET keyAt == {i \in 2..(Len(t) - 1) : (i - 2) % 3 = 0}
        names == {KeyName(t[i]) : i \in keyAt}
        lastOf(k) == CHOOSE i \in keyAt :
                        /\ KeyName(t[i]) = k
                        /\ \A j \in keyAt : KeyName(t[j]) = k => j <= i
    IN  [k \in names |-> ValueOf(t[lastOf(k) + 1])]

\* json.loads of a well-formed object.
JsonLoads(text) == CHOOSE d \in {ObjectOfTokens(t) : t \in {Lex(text)}} : TRUE

\* json.loads raises RecursionError, which is no ValueError: the scanner
\* comes to a value nested deeper than the interpreter's recursion limit
\* ("O:deep") before it comes to anything malformed.
DeepInTokens(t) ==
    LET deep == {i \in 1..Len(t) : t[i] = "O:deep"}
    IN  /\ deep # {}
        /\ LET first == CHOOSE i \in deep : \A j \in deep : i <= j
           IN  /\ t[1] = "{"
               /\ (first - 2) % 3 = 1
               /\ \A i \in 2..(first - 1) :
                     CASE (i - 2) % 3 = 0 -> t[i] \in JsonKeys
                       [] (i - 2) % 3 = 1 -> t[i] \in JsonValues
                       [] OTHER -> t[i] = ","

\* Whether json.loads of the text raises RecursionError.
JsonTooDeep(text) == \E t \in {Lex(text)} : DeepInTokens(t)

JsonRecursionError ==
    <<"maximum recursion depth exceeded while decoding a JSON object from a unicode string">>

LLMTransformOutput(enhanced_text, design_intent, canva_instructions, raw_response) ==
    [enhanced_text |-> enhanced_text,
     design_intent |-> design_intent,
     canva_instructions |-> canva_instructions,
     raw_response |-> raw_response]

\* Whether LLMTransformOutput(...) accepts the parsed fields: the two texts
\* must be strings, the instructions a dict or None.
FieldsValidate(parsed) ==
    /\ Get(parsed, "enhanced_text", JsonStr(EmptyText)).t = "str"
    /\ Get(parsed, "design_intent", JsonStr(EmptyText)).t = "str"
    /\ Get(parsed, "canva_instructions", JsonNull).t \in {"obj", "null"}

\* The text between the fences that parse_llm_response hands to json.loads.
JsonMatch(raw) ==
    IF Contains(raw, <<Fence, "json">>)
    THEN LET start == Find(raw, <<Fence, "json">>, 0) + 2
             end == Find(raw, <<Fence>>, start)
         IN  Strip(Slice(raw, start, end))
    ELSE IF Contains(raw, <<Fence>>)
    THEN LET start == Find(raw, <<Fence>>, 0) + 1
             end == Find(raw, <<Fence>>, start)
         IN  Strip(Slice(raw, start, end))
    ELSE raw

\* parse_llm_response raises: json.loads is called and its exception is none
\* of those the except clause names.
ParseRaises(response_content) ==
    LET json_match == JsonMatch(Strip(response_content))
    IN  /\ Len(json_match) > 0
        /\ json_match[1] = "{"
        /\ JsonTooDeep(json_match)

\* parse_llm_response, when it returns.
ParseLLMResponse(response_content) ==
    LET raw == Strip(response_content)
        json_match == JsonMatch(raw)
    IN  IF /\ Len(json_match) > 0
           /\ json_match[1] = "{"
           /\ JsonWellFormed(json_match)
           /\ FieldsValidate(JsonLoads(json_match))
        THEN LET parsed == JsonLoads(json_match)
                 ci == Get(parsed, "canva_instructions", JsonNull)
             IN  LLMTransformOutput(
                     Get(parsed, "enhanced_text", JsonStr(EmptyText)).s,
                     Get(parsed, "design_intent", JsonStr(EmptyText)).s,
                     IF ci.t = "obj" THEN ci.o ELSE NoneDict,
                     raw)
        ELSE LLMTransformOutput(raw, EmptyText, NoneDict, raw)

\* ------------------------------------------------------------ shared state
\* AgentState is a dict with any subset of these keys (total=False).
StateKeys ==
    {"messages", "current_node", "input_data", "output_data",
     "input_text", "input_type", "input_image_url", "input_image_base64",
     "enhanced_text", "design_intent", "canva_instructions", "llm_raw_response",
     "canva_design_id", "canva_design_url", "canva_export_url",
     "canva_export_format", "canva_success", "canva_error", "final_output"}

\* What a step handler call ends with: the partial state it returns, or the
\* exception it raises.
Returned(update) == [raised |-> FALSE, error |-> EmptyText, update |-> update]
Raised(error) == [raised |-> TRUE, error |-> error, update |-> EmptyDict]

\* ------------------------------------------------------------ input steps
\* input_text_node. The configured literal value is a mapping
\* [kind |-> "map", text |-> ...] or a plain string [kind |-> "str"]; on a
\* plain string value_obj.get raises AttributeError once the request text is
\* falsy.
AttributeErrorStr == <<"'str' object has no attribute 'get'">>

InputTextNode(node_config, state) ==
    LET input_data == Get(state, "input_data", EmptyDict)
        value_obj == Get(node_config, "value", [kind |-> "map", text |-> EmptyText])
        request_text == Get(input_data, "text", None)
    IN  IF Truthy(request_text)
        THEN Returned([input_text |-> request_text, input_type |-> "text"])
        ELSE IF value_obj.kind = "str"
        THEN Raised(AttributeErrorStr)
        ELSE Returned([input_text |-> Or(value_obj.text,
                                         Get(node_config, "text", EmptyText)),
                       input_type |-> "text"])

\* input_image_node.
InputImageNode(node_config, state) ==
    LET input_data == Get(state, "input_data", EmptyDict)
        image_data == Get(input_data, "image", EmptyDict)
        config_url == Get(node_config, "imageUrl", EmptyText)
    IN  Returned([input_image_url |-> Or(Get(image_data, "url", None), config_url),
                  input_image_base64 |-> Get(image_data, "base64", None),
                  input_type |-> "image"])

\* ------------------------------------------------------------- model steps
\* LLMProvider(provider_str), with the fallback of the two node factories.
Providers == {"openai", "anthropic", "google"}
ResolveProvider(node_config) ==
    LET provider_str == Get(node_config, "provider", "openai")
    IN  IF provider_str \in Providers THEN provider_str ELSE "openai"

UnsupportedProvider == <<"Unsupported LLM provider: LLMProvider.GOOGLE">>

\* SUPPORTED_MODELS and validate_model: a provider without an entry supports
\* no model.
SupportedModels(provider) ==
    CASE provider = "openai" -> {"gpt-4o-mini", "gpt-4o"}
      [] provider = "anthropic" ->
            {"claude-3-5-sonnet-latest", "claude-3-5-haiku-latest"}
      [] OTHER -> {}

ValidateModel(provider, model) == model \in SupportedModels(provider)

\* settings.default_model
DefaultModel == "gpt-4o-mini"

\* The model a node factory hands to get_llm: create_llm_node replaces a
\* model validate_model rejects by the default model, create_llm_transform_node
\* hands on what is configured.
ResolveModel(type, node_config) ==
    LET provider == ResolveProvider(node_config)
        model == Get(node_config, "model",
                     IF type = "llm" THEN "gpt-4o-mini" ELSE "gpt-4o")
    IN  IF type = "llm" /\ ~ValidateModel(provider, model)
        THEN DefaultModel
        ELSE model

\* get_llm(provider, model): _create_llm knows two providers and raises
\* ValueError for any other.
GetLlm(provider, model) ==
    IF provider \in {"openai", "anthropic"}
    THEN [raised |-> FALSE, error |-> EmptyText, provider |-> provider, model |-> model]
    ELSE [raised |-> TRUE, error |-> UnsupportedProvider,
          provider |-> provider, model |-> model]

\* What one model call of the environment ends with.
ModelReturns(content) == [ok |-> TRUE, content |-> content, error |-> EmptyText]
ModelRaises(error) == [ok |-> FALSE, content |-> EmptyText, error |-> error]

\* An llm_transform_node that swallows the model call's exception.
LlmTransformNodeCatching(node_config, state, call) ==
    IF call.ok
    THEN Returned([enhanced_text |-> call.content,
                   llm_raw_response |-> call.content,
                   messages |-> Get(state, "messages", <<>>)
                                    \o <<AIMessage(call.content)>>])
    ELSE Returned(EmptyDict)

\* llm_transform_node: get_llm raises for a provider _create_llm does not
\* know; the model call's exception is not caught.
LlmTransformNode(node_config, state, call) ==
    IF GetLlm(ResolveProvider(node_config),
              ResolveModel("llm_transform", node_config)).raised
    THEN Raised(UnsupportedProvider)
    ELSE IF ~call.ok
    THEN Raised(call.error)
    ELSE IF ParseRaises(call.content)
    THEN Raised(JsonRecursionError)
    ELSE LET parsed == ParseLLMResponse(call.content)
         IN  Returned(
                 [enhanced_text |-> parsed.enhanced_text,
                  design_intent |-> parsed.design_intent,
                  canva_instructions |->
                      IF parsed.canva_instructions = NoneDict
                      THEN EmptyDict
                      ELSE parsed.canva_instructions,
                  llm_raw_response |-> parsed.raw_response,
                  messages |-> Get(state, "messages", <<>>)
                                   \o <<AIMessage(call.content)>>])

\* llm_node of create_llm_node.
LlmNode(node_config, state, call) ==
    IF GetLlm(ResolveProvider(node_config), ResolveModel("llm", node_config)).raised
    THEN Raised(UnsupportedProvider)
    ELSE IF ~call.ok
    THEN Raised(call.error)
    ELSE Returned([messages |-> <<AIMessage(call.content)>>,
                   output_data |-> [response |-> call.content]])

\* tool_node.
ToolNode(state) ==
    Returned([output_data |-> [tool_result |-> <<"Tool executed successfully">>]])

\* ------------------------------------------------------------ design steps
CanvaDesignResponse(success, design_id, design_url, error) ==
    [success |-> success, design_id |-> design_id,
     design_url |-> design_url, error |-> error]

MockNote == <<"Tool not available - mock response">>

\* What one call of a design tool ends with in the environment: the tool is
\* not among the loaded tools ("missing"), it returns a result the response
\* model accepts ("ok"), or the call or the validation raises ("raises").
ToolMissing == [kind |-> "missing", design_id |-> EmptyText,
                design_url |-> EmptyText, success |-> TRUE, error |-> None]
ToolResult(success, design_id, design_url, error) ==
    [kind |-> "ok", design_id |-> design_id, design_url |-> design_url,
     success |-> success, error |-> error]
ToolRaises(error) == [kind |-> "raises", design_id |-> EmptyText,
                      design_url |-> EmptyText, success |-> FALSE, error |-> error]

\* CanvaService.create_design
CreateDesign(tool) ==
    CASE tool.kind = "missing" ->
            CanvaDesignResponse(TRUE, <<"mock-design-id">>,
                <<"https://canva.com/design/", "mock-design-id">>, MockNote)
      [] tool.kind = "ok" ->
            CanvaDesignResponse(tool.success, tool.design_id, tool.design_url, tool.error)
      [] OTHER ->
            CanvaDesignResponse(FALSE, EmptyText, EmptyText, tool.error)

\* CanvaService.modify_design
ModifyDesign(design_id, tool) ==
    CASE tool.kind = "missing" ->
            CanvaDesignResponse(TRUE, design_id,
                <<"https://canva.com/design/">> \o design_id, MockNote)
      [] tool.kind = "ok" ->
            CanvaDesignResponse(tool.success, tool.design_id, tool.design_url, tool.error)
      [] OTHER ->
            CanvaDesignResponse(FALSE, design_id, EmptyText, tool.error)

\* CanvaService.export_design followed by export_result.get("url"); format is
\* one symbol.
ExportDesignUrl(design_id, format, tool) ==
    CASE tool.kind = "missing" ->
            <<"https://canva.com/export/">> \o design_id \o <<".", format>>
      [] tool.kind = "ok" -> tool.design_url
      [] OTHER -> EmptyText

\* _resolve_template: the template id, or the ValueError it raises. found is
\* what search_templates returned: the id of the first template, or None.
NoTemplateQuery == <<"No template query provided">>
ResolveTemplate(template_source, template_id, template_search_query, instructions, found) ==
    IF template_source = "id" /\ Truthy(template_id)
    THEN [raised |-> FALSE, id |-> template_id, error |-> EmptyText]
    ELSE LET query == Or(template_search_query,
                         Get(instructions, "template_query", EmptyText))
         IN  IF ~Truthy(query)
             THEN [raised |-> TRUE, id |-> EmptyText, error |-> NoTemplateQuery]
             ELSE IF Truthy(found)
             THEN [raised |-> FALSE, id |-> found, error |-> EmptyText]
             ELSE [raised |-> TRUE, id |-> EmptyText,
                   error |-> <<"No template found for query: ">> \o query]

\* What the environment does during one canva_mcp_node call: the design tool,
\* the export tool, and what a template search finds.
CanvaCall(design, export, found) ==
    [design |-> design, export |-> export, found |-> found]

\* A canva_mcp_node that lets the failure of the design tool escape.
CanvaMcpNodeUncaught(node_config, state, call) ==
    IF call.design.kind = "raises"
    THEN Raised(call.design.error)
    ELSE LET result == CreateDesign(call.design)
         IN  Returned([canva_design_id |-> result.design_id,
                       canva_design_url |-> result.design_url,
                       canva_export_url |-> None,
                       canva_export_format |-> "link",
                       canva_success |-> result.success,
                       canva_error |-> result.error])

\* canva_mcp_node: every exception is caught and encoded in the state.
CanvaMcpNode(node_config, state, call) ==
    LET operation == Get(node_config, "operation", "create")
        output_format == Get(node_config, "outputFormat", "link")
        instructions == Get(state, "canva_instructions", EmptyDict)
        resolved == ResolveTemplate(
                        Get(node_config, "templateSource", "from_input"),
                        Get(node_config, "templateId", None),
                        Get(node_config, "templateSearchQuery", None),
                        instructions, call.found)
        failed(error) ==
            Returned([canva_design_id |-> EmptyText,
                      canva_design_url |-> EmptyText,
                      canva_export_url |-> None,
                      canva_success |-> FALSE,
                      canva_error |-> error])
    IN  IF operation # "create" /\ resolved.raised
        THEN failed(resolved.error)
        ELSE LET result == IF operation = "create"
                           THEN CreateDesign(call.design)
                           ELSE ModifyDesign(resolved.id, call.design)
                 export_url == IF output_format # "link" /\ result.success
                               THEN ExportDesignUrl(result.design_id,
                                                    output_format, call.export)
                               ELSE None
             IN  Returned([canva_design_id |-> result.design_id,
                           canva_design_url |-> result.design_url,
                           canva_export_url |-> export_url,
                           canva_export_format |-> output_format,
                           canva_success |-> result.success,
                           canva_error |-> result.error])

\* ------------------------------------------------------------ export step
OutputTypes == {"pdf", "image", "link"}

\* OutputExportNodeConfig.model_validate(node_config), with the factory's
\* fallback to the defaults: only the snake_case field names are fields of
\* the model, any other key is ignored.
ExportConfig(node_config) ==
    LET valid == "output_type" \in DOMAIN node_config
                    => node_config["output_type"] \in OutputTypes
    IN  [output_type |-> IF valid THEN Get(node_config, "output_type", "link")
                         ELSE "link",
         expires_in |-> IF valid THEN Get(node_config, "expires_in", 0) ELSE 0,
         image_format |-> IF valid THEN Get(node_config, "image_format", "png")
                          ELSE "png"]

\* An export that forgets the edit URL.
ExportDesignNoEditUrl(design_id, design_url, config, export_url) ==
    [output_type |-> config.output_type, url |-> design_url, filename |-> None,
     canva_edit_url |-> None, expires_at |-> None]

\* ExportService.export_design: the result record. expires_at is None unless
\* the link options give a number of hours.
ExportDesign(design_id, design_url, config, export_url) ==
    LET url == Or(export_url, design_url)
    IN  IF config.output_type = "link"
        THEN [output_type |-> "link", url |-> design_url, filename |-> None,
              canva_edit_url |-> design_url,
              expires_at |-> IF config.expires_in # 0
                             THEN <<"now+hours">> ELSE None]
        ELSE [output_type |-> config.output_type, url |-> url,
              filename |-> <<"design_">> \o design_id
                              \o <<".", IF config.output_type = "pdf" THEN "pdf"
                                        ELSE config.image_format>>,
              canva_edit_url |-> design_url,
              expires_at |-> None]

NoDesignUrl == <<"No design URL available">>

\* output_export_node
OutputExportNode(node_config, state) ==
    LET config == ExportConfig(node_config)
        design_id == Get(state, "canva_design_id", EmptyText)
        design_url == Get(state, "canva_design_url", EmptyText)
        export_url == Get(state, "canva_export_url", None)
    IN  IF ~Truthy(design_url)
        THEN Returned([final_output |->
                 [type |-> config.output_type, url |-> EmptyText,
                  error |-> NoDesignUrl]])
        ELSE LET result == ExportDesign(design_id, design_url, config, export_url)
             IN  Returned([final_output |->
                     [type |-> result.output_type,
                      url |-> result.url,
                      filename |-> result.filename,
                      edit_url |-> result.canva_edit_url,
                      expires_at |-> result.expires_at]])

\* ------------------------------------------------------------ collect step
ALL_STATE_KEYS ==
    <<"input_text", "input_type", "input_image_url", "input_image_base64",
      "enhanced_text", "design_intent", "canva_instructions", "llm_raw_response",
      "canva_design_id", "canva_design_url", "canva_export_url",
      "canva_success", "canva_error", "final_output">>

\* value is not None and value != "" and value != {}, by the type of the key.
Collectable(key, value) ==
    CASE key \in {"canva_instructions", "final_output"} -> value # EmptyDict
      [] key \in {"canva_success", "input_type"} -> TRUE
      [] OTHER -> Truthy(value)

Range(seq) == {seq[i] : i \in 1..Len(seq)}

\* output_node of create_output_node
OutputNode(node_config, state) ==
    LET include_keys == Get(node_config, "include_keys", <<>>)
        keys_to_check == IF Len(include_keys) > 0 THEN include_keys ELSE ALL_STATE_KEYS
        kept == {k \in Range(keys_to_check) :
                    k \in DOMAIN state /\ Collectable(k, state[k])}
    IN  Returned([output_data |-> [k \in kept |-> state[k]]])

\* ------------------------------------------------------- graph definitions
START == "__start__"
END == "__end__"

\* The node types _build_graph dispatches on.
NodeTypes ==
    {"start", "end", "llm", "llm_transform", "input_text", "input_image",
     "canva_mcp", "output_export", "tool", "condition", "output"}

\* node.data.value: unset, a mapping with a text, or a plain string.
NoValue == [kind |-> "none", text |-> EmptyText]
MapValue(text) == [kind |-> "map", text |-> text]
StrValue(text) == [kind |-> "str", text |-> text]

\* `if node.data.value:`
ValueTruthy(value) ==
    \/ value.kind = "map"
    \/ value.kind = "str" /\ value.text # EmptyText

GraphNode(id, type, config, value) ==
    [id |-> id, type |-> type, config |-> config, value |-> value]

\* source_handle "" stands for None.
GraphEdge(source, target, source_handle) ==
    [source |-> source, target |-> target, source_handle |-> source_handle]

\* ------------------------------------------------------------ _build_graph
\* The StateGraph builder: the nodes that have a handler (with the type and
\* configuration the handler was built from), the direct edges, the
\* conditional edges (one branch table per source), and the ValueError that
\* stopped the build, if any.
NoError == None

EmptyBuilder ==
    [nodes |-> {}, handlers |-> EmptyDict, edges |-> {},
     branches |-> EmptyDict, error |-> NoError]

\* builder.add_node: a node id is added once, and the sentinels are reserved.
AddNode(builder, node_id, type, config) ==
    IF node_id \in builder.nodes
    THEN [builder EXCEPT !.error = <<"Node already present: ", node_id>>]
    ELSE IF node_id \in {START, END}
    THEN [builder EXCEPT !.error = <<"Node is reserved: ", node_id>>]
    ELSE [builder EXCEPT
            !.nodes = @ \cup {node_id},
            !.handlers = Merge(@, [k \in {node_id} |->
                                     [type |-> type, config |-> config]])]

\* builder.add_edge
AddEdge(builder, source, target) ==
    IF source = END
    THEN [builder EXCEPT !.error = <<"END cannot be a start node">>]
    ELSE IF target = START
    THEN [builder EXCEPT !.error = <<"START cannot be an end node">>]
    ELSE [builder EXCEPT !.edges = @ \cup {<<source, target>>}]

\* builder.add_conditional_edges with the router of create_condition_router:
\* a second branch of the same name ("router") on one source is refused.
AddConditionalEdges(builder, source, path_map) ==
    IF source \in DOMAIN builder.branches
    THEN [builder EXCEPT
            !.error = <<"Branch with name router already exists for node ", source>>]
    ELSE [builder EXCEPT
            !.branches = Merge(@, [k \in {source} |-> path_map])]

\* The node loop's effect on node_map and the builder, for one node.
MergedConfig(node) ==
    IF node.type \in {"input_text", "input_image"} /\ ValueTruthy(node.value)
    THEN Merge(node.config, [value |-> node.value])
    ELSE node.config

RECURSIVE AddNodes(_, _, _)
AddNodes(nodes, i, acc) ==
    IF i > Len(nodes) \/ acc.builder.error # NoError
    THEN acc
    ELSE LET node == nodes[i]
             handle == CASE node.type = "start" -> START
                         [] node.type = "end" -> END
                         [] OTHER -> node.id
             builder == IF node.type \in {"start", "end", "condition"}
                        THEN acc.builder
                        ELSE AddNode(acc.builder, node.id, node.type,
                                     MergedConfig(node))
         IN  AddNodes(nodes, i + 1,
                 [builder |-> builder,
                  node_map |-> IF builder.error = NoError
                               THEN Merge(acc.node_map, [k \in {node.id} |-> handle])
                               ELSE acc.node_map])

\* A branch table that keeps the edges' target ids as they are declared.
RECURSIVE PathMapUnresolved(_, _, _, _)
PathMapUnresolved(condition_edges, i, node_map, acc) ==
    IF i > Len(condition_edges)
    THEN acc
    ELSE LET ce == condition_edges[i]
             label == IF ce.source_handle = "true" THEN "true" ELSE "false"
         IN  PathMapUnresolved(condition_edges, i + 1, node_map,
                               Merge(acc, [k \in {label} |-> ce.target]))

\* The branch table of one condition node: of the edges with
\* source_handle "true" the last one gives "true", of the others the last one
\* gives "false".
RECURSIVE PathMap(_, _, _, _)
PathMap(condition_edges, i, node_map, acc) ==
    IF i > Len(condition_edges)
    THEN acc
    ELSE LET ce == condition_edges[i]
             ce_target == Get(node_map, ce.target, ce.target)
             label == IF ce.source_handle = "true" THEN "true" ELSE "false"
         IN  PathMap(condition_edges, i + 1, node_map,
                     Merge(acc, [k \in {label} |-> ce_target]))

\* next(n for n in nodes if n.id == id, None): whether it is a condition node.
IsConditionSource(nodes, id) ==
    LET at == {i \in 1..Len(nodes) : nodes[i].id = id}
    IN  /\ at # {}
        /\ nodes[CHOOSE i \in at : \A j \in at : i <= j].type = "condition"

\* The edge loop's effect on the builder, for one edge.
AddGraphEdge(builder, graph, node_map, edge) ==
    LET source == Get(node_map, edge.source, edge.source)
        target == Get(node_map, edge.target, edge.target)
    IN  IF IsConditionSource(graph.nodes, edge.source)
        THEN LET condition_edges ==
                    SelectSeq(graph.edges, LAMBDA e : e.source = edge.source)
                 path_map == PathMap(condition_edges, 1, node_map, EmptyDict)
             IN  IF /\ Len(condition_edges) >= 2
                    /\ path_map # EmptyDict
                    /\ source \notin {START, END}
                 THEN AddConditionalEdges(builder, source, path_map)
                 ELSE builder
        ELSE IF source = START
        THEN AddEdge(builder, START, target)
        ELSE IF target = END
        THEN AddEdge(builder, source, END)
        ELSE IF source \notin {START, END} /\ target \notin {START, END}
        THEN AddEdge(builder, source, target)
        ELSE builder

RECURSIVE AddEdges(_, _, _, _)
AddEdges(graph, i, node_map, builder) ==
    IF i > Len(graph.edges) \/ builder.error # NoError
    THEN builder
    ELSE AddEdges(graph, i + 1, node_map,
                  AddGraphEdge(builder, graph, node_map, graph.edges[i]))

\* GraphExecutor._build_graph
BuildGraph(graph) ==
    LET noded == AddNodes(graph.nodes, 1,
                          [builder |-> EmptyBuilder, node_map |-> EmptyDict])
    IN  AddEdges(graph, 1, noded.node_map, noded.builder)

\* builder.compile(checkpointer=...): the validation of the built graph.
BranchTargets(builder) ==
    UNION {{builder.branches[s][l] : l \in DOMAIN builder.branches[s]} :
              s \in DOMAIN builder.branches}

ValidationError(builder) ==
    LET all_sources == {e[1] : e \in builder.edges} \cup DOMAIN builder.branches
        all_targets == {e[2] : e \in builder.edges} \cup BranchTargets(builder)
    IN  IF \E x \in all_sources : x \notin builder.nodes /\ x # START
        THEN <<"Found edge starting at unknown node">>
        ELSE IF START \notin all_sources
        THEN <<"Graph must have an entrypoint">>
        ELSE IF \E x \in all_targets : x \notin builder.nodes /\ x # END
        THEN <<"Found edge ending at unknown node">>
        ELSE NoError

\* GraphExecutor.compile: the compiled graph, or the error raised on the way.
Compile(graph) ==
    LET builder == BuildGraph(graph)
    IN  IF builder.error # NoError
        THEN builder
        ELSE [builder EXCEPT !.error = ValidationError(builder)]

\* ---------------------------------------------------------- state merging
MaxId(messages) ==
    IF Len(messages) = 0 THEN 0
    ELSE CHOOSE n \in {messages[i].id : i \in 1..Len(messages)} :
            \A i \in 1..Len(messages) : messages[i].id <= n

\* add_messages, the reducer of the messages key: a message whose id is
\* already in the list replaces that entry, any other message is appended (a
\* message without an id is given a fresh one).
RECURSIVE AddMessagesFrom(_, _, _)
AddMessagesFrom(left, right, i) ==
    IF i > Len(right)
    THEN left
    ELSE LET m == right[i]
             same == {j \in 1..Len(left) : m.id # 0 /\ left[j].id = m.id}
         IN  IF same # {}
             THEN AddMessagesFrom(
                      [j \in 1..Len(left) |-> IF j \in same THEN m ELSE left[j]],
                      right, i + 1)
             ELSE AddMessagesFrom(
                      Append(left, IF m.id = 0
                                   THEN [m EXCEPT !.id = MaxId(left) + 1]
                                   ELSE m),
                      right, i + 1)

\* A reducer that concatenates (operator.add).
ConcatMessages(left, right) == left \o right

AddMessages(left, right) == AddMessagesFrom(left, right, 1)

\* One partial state merged into the running state: messages through the
\* reducer, every other key overwritten.
ApplyUpdate(values, update) ==
    [k \in DOMAIN values \cup DOMAIN update |->
        IF k \notin DOMAIN update THEN values[k]
        ELSE IF k = "messages"
        THEN AddMessages(Get(values, "messages", <<>>), update[k])
        ELSE update[k]]

\* The partial states of the nodes of one superstep, merged in the order the
\* nodes have in order.
RECURSIVE ApplyUpdates(_, _, _, _)
ApplyUpdates(values, updates, order, i) ==
    IF i > Len(order)
    THEN values
    ELSE ApplyUpdates(
             IF order[i] \in DOMAIN updates
             THEN ApplyUpdate(values, updates[order[i]])
             ELSE values,
             updates, order, i + 1)

\* Two nodes of one superstep that write the same overwrite key: the
\* InvalidUpdateError of a last-value channel.
ConflictingUpdates(updates) ==
    \E a, b \in DOMAIN updates :
        /\ a # b
        /\ (DOMAIN updates[a] \cap DOMAIN updates[b]) \ {"messages"} # {}

InvalidUpdate == <<"Can receive only one value per step">>

\* ------------------------------------------------------------- the driver
\* initial_state of GraphExecutor.execute
InitialState(input_data) ==
    [messages |-> <<HumanMessage(Get(input_data, "message", EmptyText))>>,
     current_node |-> EmptyText,
     input_data |-> input_data,
     output_data |-> EmptyDict]

\* An execute that returns the final state as it is.
ExecuteOutputWhole(result) == result

\* The mapping GraphExecutor.execute returns from the final state.
ExecuteOutput(result) ==
    LET messages == Get(result, "messages", <<>>)
    IN  [messages |-> [i \in 1..Len(messages) |->
                          [role |-> IF messages[i].role = "ai" THEN "ai" ELSE "human",
                           content |-> messages[i].content]],
         output_data |-> Get(result, "output_data", EmptyDict)]

\* The supersteps one invocation may take before GraphRecursionError.
RecursionLimit == 25
RecursionError == <<"Recursion limit reached without hitting a stop condition">>

\* A scheduler that starts every step of the graph at once.
AllNodes(compiled, ran, values) ==
    IF START \in ran THEN compiled.nodes \ {START, END} ELSE {}

\* The nodes the finished superstep triggers: the targets of the direct
\* edges of the nodes that ran, and for a branch the target its router picks.
NextNodes(compiled, ran, values) ==
    ({e[2] : e \in {d \in compiled.edges : d[1] \in ran}}
        \cup {compiled.branches[s][Router(Get(values, "messages", <<>>))] :
                 s \in ran \cap DOMAIN compiled.branches})
    \ {END}

\* What the environment does during one handler call.
EnvCall(model, canva) == [model |-> model, canva |-> canva]

\* The handler built for a node, applied to the state.
RunHandler(handler, state, call) ==
    CASE handler.type = "input_text" -> InputTextNode(handler.config, state)
      [] handler.type = "input_image" -> InputImageNode(handler.config, state)
      [] handler.type = "llm_transform" ->
            LlmTransformNode(handler.config, state, call.model)
      [] handler.type = "llm" -> LlmNode(handler.config, state, call.model)
      [] handler.type = "canva_mcp" ->
            CanvaMcpNode(handler.config, state, call.canva)
      [] handler.type = "output_export" -> OutputExportNode(handler.config, state)
      [] handler.type = "tool" -> ToolNode(state)
      [] OTHER -> OutputNode(handler.config, state)

\* --------------------------------------------------- the catalog's contents
\* The graphs a create-graph request stores.
PipelineNodes ==
    <<GraphNode("start-1", "start", EmptyDict, NoValue),
      GraphNode("a-input", "input_text", [text |-> <<"Hello">>], NoValue),
      GraphNode("b-transform", "llm_transform", [provider |-> "openai"], NoValue),
      GraphNode("c-canva", "canva_mcp", [operation |-> "create"], NoValue),
      GraphNode("d-export", "output_export", [outputType |-> "link"], NoValue),
      GraphNode("end-1", "end", EmptyDict, NoValue)>>

\* START -> input-text -> llm-transform -> design-create -> export(link) -> END
PipelineGraph ==
    [nodes |-> PipelineNodes,
     edges |-> <<GraphEdge("start-1", "a-input", ""),
                 GraphEdge("a-input", "b-transform", ""),
                 GraphEdge("b-transform", "c-canva", ""),
                 GraphEdge("c-canva", "d-export", ""),
                 GraphEdge("d-export", "end-1", "")>>]

\* START -> input-text -> collect -> END
CollectGraph ==
    [nodes |-> <<GraphNode("start-1", "start", EmptyDict, NoValue),
                 GraphNode("a-input", "input_text", EmptyDict, MapValue(<<"Hi">>)),
                 GraphNode("b-output", "output", EmptyDict, NoValue),
                 GraphNode("end-1", "end", EmptyDict, NoValue)>>,
     edges |-> <<GraphEdge("start-1", "a-input", ""),
                 GraphEdge("a-input", "b-output", ""),
                 GraphEdge("b-output", "end-1", "")>>]

\* A graph one of whose edges names a node that was deleted.
DanglingGraph ==
    [nodes |-> <<GraphNode("start-1", "start", EmptyDict, NoValue),
                 GraphNode("a-input", "input_text", EmptyDict, NoValue),
                 GraphNode("end-1", "end", EmptyDict, NoValue)>>,
     edges |-> <<GraphEdge("start-1", "a-input", ""),
                 GraphEdge("a-input", "gone", "")>>]

EmptyGraph == [nodes |-> <<>>, edges |-> <<>>]

\* START -> input-text -> {llm-transform, input-image} -> END: a step that is
\* no condition and has two outgoing edges.
FanOutGraph ==
    [nodes |-> <<GraphNode("start-1", "start", EmptyDict, NoValue),
                 GraphNode("a-input", "input_text", [text |-> <<"Hello">>], NoValue),
                 GraphNode("b-transform", "llm_transform", [provider |-> "openai"], NoValue),
                 GraphNode("c-image", "input_image", EmptyDict, NoValue),
                 GraphNode("end-1", "end", EmptyDict, NoValue)>>,
     edges |-> <<GraphEdge("start-1", "a-input", ""),
                 GraphEdge("a-input", "b-transform", ""),
                 GraphEdge("a-input", "c-image", ""),
                 GraphEdge("b-transform", "end-1", ""),
                 GraphEdge("c-image", "end-1", "")>>]

GraphDefs == {PipelineGraph, CollectGraph, DanglingGraph}

\* Whether the graph is one path START -> n1 -> ... -> nk -> END.
IsLinearPath(graph) ==
    /\ Len(graph.nodes) >= 2
    /\ Len(graph.edges) = Len(graph.nodes) - 1
    /\ graph.nodes[1].type = "start"
    /\ graph.nodes[Len(graph.nodes)].type = "end"
    /\ \A i \in 1..Len(graph.edges) :
          /\ graph.edges[i].source = graph.nodes[i].id
          /\ graph.edges[i].target = graph.nodes[i + 1].id
    /\ \A i \in 2..(Len(graph.nodes) - 1) :
          graph.nodes[i].type \notin {"start", "end", "condition"}

\* The ids of the catalog's documents. A graph_id is None ("none"), a string
\* that is no ObjectId ("malformed"), the id of a graph, or a well-formed id
\* no graph ever had.
WorkflowIds == {"w1"}
GraphIds == {"g1"}
NoGraphId == "none"
MalformedId == "malformed"
UnknownGraphId == "g0"

\* PydanticObjectId(s) raises InvalidId unless s is a well-formed id.
WellFormedId(s) == s \in GraphIds \cup {UnknownGraphId}

\* The input_data of an execute request.
InputPayloads == {EmptyDict, [text |-> <<"H", "i">>, message |-> <<"Y", "e", "s">>]}

\* The model's answers: fenced structured output, and plain text.
StructuredAnswer ==
    <<Fence, "json", "\n", "{",
      "K:enhanced_text", "S:Hi", ",",
      "K:design_intent", "S:greet", ",",
      "K:canva_instructions", "O:poster",
      "}", "\n", Fence>>
PlainAnswer == <<"Y", "e", "s">>
ModelTimeout == <<"model timeout">>

ModelCalls ==
    {ModelReturns(StructuredAnswer), ModelReturns(PlainAnswer), ModelRaises(ModelTimeout)}

DesignUrl == <<"https://x/d1">>
DesignId == <<"d1">>
ApiError == <<"API Error">>

\* The design tool returns a design, or raises: an exception with a message,
\* or one whose str() is empty (a timeout, a closed connection).
DesignCalls ==
    {ToolResult(TRUE, DesignId, DesignUrl, None), ToolRaises(ApiError),
     ToolRaises(EmptyText)}

NoModelCall == ModelReturns(EmptyText)
NoCanvaCall == CanvaCall(ToolMissing, ToolMissing, None)

\* The environment's possible behaviours during a call of a handler.
CallsFor(type) ==
    CASE type \in {"llm_transform", "llm"} ->
            {EnvCall(m, NoCanvaCall) : m \in ModelCalls}
      [] type = "canva_mcp" ->
            {EnvCall(NoModelCall, CanvaCall(d, ToolMissing, None)) : d \in DesignCalls}
      [] OTHER -> {EnvCall(NoModelCall, NoCanvaCall)}

\* ------------------------------------------------------------------ state
VARIABLES
    workflows,    \* workflow id -> the Workflow document, or that there is none
    graphs,       \* graph id -> the Graph document, or that there is none
    threads,      \* the Thread documents, by thread id (1..Len)
    runs,         \* the background-task runs of execute_workflow
    checkpoints,  \* thread id -> the state the checkpointer last saved
    executor,     \* one GraphExecutor a caller keeps, and what its calls did
    mcp_manager,  \* the MCPClientManager singleton, its token file, its users
    upload_dir,   \* the names of the files in the upload directory
    canva_service, \* the CanvaService singleton: its cached tools, its calls
    auth,         \* pending_flows of the OAuth endpoints, and their requests
    fn_input,     \* the argument a function of the program is applied to
    fn_output     \* <<>>, or the one value the function returned for it

vars ==
    <<workflows, graphs, threads, runs, checkpoints, executor, mcp_manager,
      upload_dir, canva_service, auth, fn_input, fn_output>>

NoWorkflow(phase) == [phase |-> phase, graph_id |-> NoGraphId]

\* self._compiled of a GraphExecutor: None, or the graph a compile built
\* (build tells the compiled graphs of one executor apart).
NotCompiled == [build |-> 0, builder |-> EmptyBuilder]

\* GraphExecutor(graph); builds counts the calls of _build_graph, calls and
\* results record the calls made on the executor and how each ended.
NewExecutor(graph) ==
    [graph |-> graph, compiled |-> NotCompiled, builds |-> 0,
     calls |-> <<>>, results |-> <<>>]

NoExecutor == NewExecutor(EmptyGraph)

\* MCPClientManager: a token is a string, "none" stands for None and for a
\* token file that does not exist; a client and the tools it served are told
\* apart by the token the client was configured with.
NoToken == "none"
NoClient == [token |-> NoToken]
ClientFor(token) == [token |-> token]
ToolsOf(token) == {[name |-> "canva_create_design", token |-> token]}

\* MCPClientManager() with the token file as it is on disk; last records the
\* latest call made on the manager, served what get_tools last returned.
NewManager(token_file) ==
    [client |-> NoClient, tools |-> {}, initialized |-> FALSE,
     canva_token |-> NoToken, token_file |-> token_file,
     last |-> [op |-> "init", token |-> NoToken, connects |-> FALSE],
     served |-> {}]

NoManager == NewManager(NoToken)

\* The upload directory: the names of its files; saved records which file
\* was written for which session, saves counts the uploads, last is the
\* latest request on the directory and what it did.
NoUploads ==
    [files |-> {}, saved |-> {}, saves |-> 0,
     last |-> [op |-> "none", session_id |-> <<>>, count |-> 0,
               deleted |-> {}, kept |-> {}, before |-> {}]]
NoGraph(phase) == [phase |-> phase, def |-> EmptyGraph]

\* Thread(workflow_id=..., status=PENDING, input_data=...)
NewThread(workflow_id, input_data) ==
    [workflow_id |-> workflow_id,
     status |-> "pending",
     input_data |-> input_data,
     output_data |-> EmptyDict,
     error_message |-> None]

\* One run of workflow_service.execute_workflow(thread_id): where it is (pc),
\* its local variables, its executor's compiled graph and the invocation's
\* running state; trace, calls and written record which handlers began, what
\* the environment did during each call that ended, and which keys handlers
\* returned.
NewRun(thread_id) ==
    [thread_id |-> thread_id,
     pc |-> "queued",
     thread |-> NewThread("", EmptyDict),
     graph_id |-> NoGraphId,
     graph |-> EmptyGraph,
     executor |-> FALSE,
     compiled |-> EmptyBuilder,
     values |-> EmptyDict,
     active |-> {},
     running |-> {},
     updates |-> EmptyDict,
     step |-> 0,
     trace |-> <<>>,
     calls |-> <<>>,
     written |-> {},
     error |-> None,
     result |-> EmptyDict]

InitProgram ==
    /\ workflows = [w \in WorkflowIds |-> NoWorkflow("absent")]
    /\ graphs = [g \in GraphIds |-> NoGraph("absent")]
    /\ threads = <<>>
    /\ runs = <<>>
    /\ checkpoints = <<>>

\* CanvaService(): the tools it keeps by name (a set of tool objects, empty
\* until it loads them), and for every design operation it ran the tool it
\* invoked (none for a mock response) and the tools the manager held then.
NewCanvaService == [tools |-> {}, calls |-> <<>>]

\* The OAuth endpoints: pending_flows (the states with a stored verifier),
\* the numbers of states login issued and of login requests, and the
\* callback requests with what became of each.
NoAuth == [pending_flows |-> {}, issued |-> 0, logins |-> 0, requests |-> <<>>]

\* The components no background task touches, as they are at start-up.
InitIdle ==
    /\ executor = NoExecutor
    /\ mcp_manager = NoManager
    /\ upload_dir = NoUploads
    /\ canva_service = NewCanvaService
    /\ auth = NoAuth

Init ==
    /\ InitProgram
    /\ InitIdle
    /\ fn_input = <<>>
    /\ fn_output = <<>>

\* ------------------------------------------------------ catalog requests
\* POST /graphs
CreateGraph(g, def) ==
    /\ graphs[g].phase = "absent"
    /\ graphs' = [graphs EXCEPT ![g] = [phase |-> "exists", def |-> def]]
    /\ UNCHANGED <<executor, mcp_manager, upload_dir, canva_service, auth, fn_input, fn_output, workflows, threads, runs, checkpoints>>

\* DELETE /graphs/{graph_id}
DeleteGraph(g) ==
    /\ graphs[g].phase = "exists"
    /\ graphs' = [graphs EXCEPT ![g] = NoGraph("deleted")]
    /\ UNCHANGED <<executor, mcp_manager, upload_dir, canva_service, auth, fn_input, fn_output, workflows, threads, runs, checkpoints>>

\* The graph_id strings a request can carry.
RequestGraphIds == {NoGraphId, MalformedId, UnknownGraphId} \cup GraphIds

\* POST /workflows
CreateWorkflow(w, graph_id) ==
    /\ workflows[w].phase = "absent"
    /\ graph_id \in GraphIds => graphs[graph_id].phase # "absent"
    /\ workflows' = [workflows EXCEPT
                        ![w] = [phase |-> "exists", graph_id |-> graph_id]]
    /\ UNCHANGED <<executor, mcp_manager, upload_dir, canva_service, auth, fn_input, fn_output, graphs, threads, runs, checkpoints>>

\* PATCH /workflows/{workflow_id} with a graph_id
UpdateWorkflow(w, graph_id) ==
    /\ workflows[w].phase = "exists"
    /\ graph_id \in GraphIds => graphs[graph_id].phase # "absent"
    /\ graph_id # workflows[w].graph_id    \* any other update changes nothing
    /\ workflows' = [workflows EXCEPT ![w].graph_id = graph_id]
    /\ UNCHANGED <<executor, mcp_manager, upload_dir, canva_service, auth, fn_input, fn_output, graphs, threads, runs, checkpoints>>

\* DELETE /workflows/{workflow_id}
DeleteWorkflow(w) ==
    /\ workflows[w].phase = "exists"
    /\ workflows' = [workflows EXCEPT ![w] = NoWorkflow("deleted")]
    /\ UNCHANGED <<executor, mcp_manager, upload_dir, canva_service, auth, fn_input, fn_output, graphs, threads, runs, checkpoints>>

\* POST /workflows/{workflow_id}/execute: the thread is inserted pending and
\* one background task is added for it.
ExecuteRequest(w, input_data) ==
    /\ Len(threads) < MaxThreads
    /\ Len(runs) < MaxRuns
    /\ workflows[w].phase = "exists"
    /\ threads' = Append(threads, NewThread(w, input_data))
    /\ runs' = Append(runs, NewRun(Len(threads) + 1))
    /\ checkpoints' = Append(checkpoints, EmptyDict)
    /\ UNCHANGED <<executor, mcp_manager, upload_dir, canva_service, auth, fn_input, fn_output, workflows, graphs>>

\* ------------------------------------------------- the background task
WorkflowNotFound == <<"Workflow not found">>
NoGraphConfiguration == <<"Workflow has no graph configuration">>
GraphNotFound == <<"Graph not found">>

\* A task that never saves RUNNING.
MarkRunningSkipped(thread) == thread

\* A task that completes the record without storing the result.
MarkCompletedWithoutResult(thread, result) == [thread EXCEPT !.status = "completed"]

\* The assignments to the local Thread document before each save.
MarkFailed(thread, message) ==
    [thread EXCEPT !.status = "failed", !.error_message = message]

MarkRunning(thread) == [thread EXCEPT !.status = "running"]

MarkCompleted(thread, result) ==
    [thread EXCEPT !.status = "completed", !.output_data = result]

\* await thread.save(): the local document replaces the stored one.
Save(r, run) ==
    /\ threads' = [threads EXCEPT ![run.thread_id] = run.thread]
    /\ runs' = [runs EXCEPT ![r] = run]

\* Thread.get(thread_id); without a document the task returns.
GetThread(r) ==
    /\ runs[r].pc = "queued"
    /\ runs' = [runs EXCEPT ![r] =
                  IF runs[r].thread_id \in 1..Len(threads)
                  THEN [@ EXCEPT !.pc = "thread",
                                 !.thread = threads[runs[r].thread_id]]
                  ELSE [@ EXCEPT !.pc = "done"]]
    /\ UNCHANGED <<executor, mcp_manager, upload_dir, canva_service, auth, fn_input, fn_output, workflows, graphs, threads, checkpoints>>

\* A task without the check of workflow.graph_id.
GetWorkflowUnchecked(r) ==
    LET run == runs[r]
        workflow == workflows[run.thread.workflow_id]
    IN  /\ run.pc = "thread"
        /\ IF workflow.phase # "exists"
           THEN Save(r, [run EXCEPT !.pc = "done",
                            !.thread = MarkFailed(@, WorkflowNotFound)])
           ELSE /\ runs' = [runs EXCEPT ![r] =
                              [run EXCEPT !.pc = "workflow",
                                          !.graph_id = workflow.graph_id]]
                /\ UNCHANGED threads
        /\ UNCHANGED <<executor, mcp_manager, upload_dir, canva_service, auth, fn_input, fn_output, workflows, graphs, checkpoints>>

\* Workflow.get(thread.workflow_id) and the two checks that follow it.
GetWorkflow(r) ==
    LET run == runs[r]
        workflow == workflows[run.thread.workflow_id]
    IN  /\ run.pc = "thread"
        /\ IF workflow.phase # "exists"
           THEN Save(r, [run EXCEPT !.pc = "done",
                            !.thread = MarkFailed(@, WorkflowNotFound)])
           ELSE IF workflow.graph_id = NoGraphId
           THEN Save(r, [run EXCEPT !.pc = "done",
                            !.thread = MarkFailed(@, NoGraphConfiguration)])
           ELSE /\ runs' = [runs EXCEPT ![r] =
                              [run EXCEPT !.pc = "workflow",
                                          !.graph_id = workflow.graph_id]]
                /\ UNCHANGED threads
        /\ UNCHANGED <<executor, mcp_manager, upload_dir, canva_service, auth, fn_input, fn_output, workflows, graphs, checkpoints>>

\* Graph.get(PydanticObjectId(workflow.graph_id)): InvalidId leaves the task
\* before any handler of it ("crashed").
GetGraph(r) ==
    LET run == runs[r]
    IN  /\ run.pc = "workflow"
        /\ IF ~WellFormedId(run.graph_id)
           THEN /\ runs' = [runs EXCEPT ![r] = [run EXCEPT !.pc = "crashed"]]
                /\ UNCHANGED threads
           ELSE IF run.graph_id \notin GraphIds \/ graphs[run.graph_id].phase # "exists"
           THEN Save(r, [run EXCEPT !.pc = "done",
                            !.thread = MarkFailed(@, GraphNotFound)])
           ELSE /\ runs' = [runs EXCEPT ![r] =
                              [run EXCEPT !.pc = "graph",
                                          !.graph = graphs[run.graph_id].def]]
                /\ UNCHANGED threads
        /\ UNCHANGED <<executor, mcp_manager, upload_dir, canva_service, auth, fn_input, fn_output, workflows, graphs, checkpoints>>

\* thread.status = RUNNING; await thread.save()
SetRunning(r) ==
    /\ runs[r].pc = "graph"
    /\ Save(r, [runs[r] EXCEPT !.pc = "running", !.thread = MarkRunning(@)])
    /\ UNCHANGED <<executor, mcp_manager, upload_dir, canva_service, auth, fn_input, fn_output, workflows, graphs, checkpoints>>

\* An invocation that starts from its input alone, whatever is saved.
FreshInput(saved, initial_state) == ApplyUpdate(EmptyDict, initial_state)

\* ainvoke(initial_state, config) under a checkpointer: the input is written
\* as an update onto the state saved under config's thread_id.
InvocationInput(saved, initial_state) == ApplyUpdate(saved, initial_state)

\* The ids of the graph's nodes, in the order of the document.
NodeOrder(graph) == [i \in 1..Len(graph.nodes) |-> graph.nodes[i].id]

\* The run after a superstep whose nodes all returned: the partial states are
\* merged, and the invocation returns, goes on, or raises.
AfterSuperstep(run) ==
    IF ConflictingUpdates(run.updates)
    THEN [run EXCEPT !.pc = "raised", !.error = InvalidUpdate]
    ELSE LET values == ApplyUpdates(run.values, run.updates, NodeOrder(run.graph), 1)
             next == NextNodes(run.compiled, run.active, values)
         IN  IF next = {}
             THEN [run EXCEPT !.pc = "returned", !.values = values,
                              !.active = {}, !.updates = EmptyDict,
                              !.step = @ + 1,
                              !.result = ExecuteOutput(values)]
             ELSE IF run.step + 1 >= RecursionLimit
             THEN [run EXCEPT !.pc = "raised", !.values = values,
                              !.error = RecursionError]
             ELSE [run EXCEPT !.values = values, !.active = next,
                              !.updates = EmptyDict, !.step = @ + 1]

\* GraphExecutor(graph), executor.compile() and the start of
\* executor.execute: the input is merged into the state saved for the thread
\* id and the nodes START points to are scheduled.
StartEngine(r) ==
    LET run == runs[r]
        compiled == Compile(run.graph)
        values == InvocationInput(checkpoints[run.thread_id],
                                  InitialState(run.thread.input_data))
        started == [run EXCEPT !.executor = TRUE, !.compiled = compiled,
                               !.values = values, !.active = {START}]
    IN  /\ run.pc = "running"
        /\ IF compiled.error # NoError
           THEN /\ runs' = [runs EXCEPT ![r] =
                              [run EXCEPT !.pc = "raised", !.executor = TRUE,
                                          !.compiled = compiled,
                                          !.error = compiled.error]]
                /\ UNCHANGED checkpoints
           ELSE /\ runs' = [runs EXCEPT ![r] =
                              [AfterSuperstep(started) EXCEPT
                                  !.pc = IF @ = "returned" THEN @ ELSE "engine",
                                  !.step = 0]]
                /\ checkpoints' = [checkpoints EXCEPT ![run.thread_id] = values]
        /\ UNCHANGED <<executor, mcp_manager, upload_dir, canva_service, auth, fn_input, fn_output, workflows, graphs, threads>>

\* A scheduled handler is called.
BeginStep(r, n) ==
    /\ runs[r].pc = "engine"
    /\ n \in runs[r].active
    /\ n \notin runs[r].running
    /\ n \notin DOMAIN runs[r].updates
    /\ runs' = [runs EXCEPT ![r] =
                  [@ EXCEPT !.running = @ \cup {n}, !.trace = Append(@, n)]]
    /\ UNCHANGED <<executor, mcp_manager, upload_dir, canva_service, auth, fn_input, fn_output, workflows, graphs, threads, checkpoints>>

\* A handler call ends: it raises, and the invocation raises with it, or it
\* returns its partial state; the last one of a superstep ends the superstep,
\* and the merged state is saved under the thread id.
FinishStep(r, n, call) ==
    /\ runs[r].pc = "engine"
    /\ n \in runs[r].running
    /\ \E outcome \in {RunHandler(runs[r].compiled.handlers[n], runs[r].values, call)} :
         \E called \in {[runs[r] EXCEPT
                            !.calls = Append(@, [node |-> n, call |-> call])]} :
            IF outcome.raised
            THEN /\ runs' = [runs EXCEPT ![r] =
                               [called EXCEPT !.pc = "raised", !.running = {},
                                              !.error = outcome.error]]
                 /\ UNCHANGED checkpoints
            ELSE \E returned \in {[called EXCEPT
                                      !.running = @ \ {n},
                                      !.updates = Merge(@, [k \in {n} |-> outcome.update]),
                                      !.written = @ \cup DOMAIN outcome.update]} :
                   \E after \in {IF DOMAIN returned.updates = runs[r].active
                                  THEN AfterSuperstep(returned)
                                  ELSE returned} :
                      /\ runs' = [runs EXCEPT ![r] = after]
                      /\ checkpoints' =
                            IF after.values = runs[r].values
                            THEN checkpoints
                            ELSE [checkpoints EXCEPT ![runs[r].thread_id] = after.values]
    /\ UNCHANGED <<executor, mcp_manager, upload_dir, canva_service, auth, fn_input, fn_output, workflows, graphs, threads>>

\* thread.status = COMPLETED; thread.output_data = result; await thread.save()
Complete(r) ==
    /\ runs[r].pc = "returned"
    /\ Save(r, [runs[r] EXCEPT !.pc = "done",
                   !.thread = MarkCompleted(@, runs[r].result)])
    /\ UNCHANGED <<executor, mcp_manager, upload_dir, canva_service, auth, fn_input, fn_output, workflows, graphs, checkpoints>>

\* except Exception as e: thread.status = FAILED; thread.error_message = str(e)
Fail(r) ==
    /\ runs[r].pc = "raised"
    /\ Save(r, [runs[r] EXCEPT !.pc = "done",
                   !.thread = MarkFailed(@, runs[r].error)])
    /\ UNCHANGED <<executor, mcp_manager, upload_dir, canva_service, auth, fn_input, fn_output, workflows, graphs, checkpoints>>

\* ------------------------------------------------------- specifications
Next ==
    \/ \E g \in GraphIds, def \in GraphDefs : CreateGraph(g, def)
    \/ \E g \in GraphIds : DeleteGraph(g)
    \/ \E w \in WorkflowIds, id \in RequestGraphIds : CreateWorkflow(w, id)
    \/ \E w \in WorkflowIds, id \in RequestGraphIds : UpdateWorkflow(w, id)
    \/ \E w \in WorkflowIds : DeleteWorkflow(w)
    \/ \E w \in WorkflowIds, input_data \in InputPayloads : ExecuteRequest(w, input_data)
    \/ \E r \in 1..Len(runs) : GetThread(r)
    \/ \E r \in 1..Len(runs) : GetWorkflow(r)
    \/ \E r \in 1..Len(runs) : GetGraph(r)
    \/ \E r \in 1..Len(runs) : SetRunning(r)
    \/ \E r \in 1..Len(runs) : StartEngine(r)
    \/ \E r \in 1..Len(runs) : \E n \in runs[r].active : BeginStep(r, n)
    \/ \E r \in 1..Len(runs) : \E n \in runs[r].running :
          \E call \in CallsFor(runs[r].compiled.handlers[n].type) :
              FinishStep(r, n, call)
    \/ \E r \in 1..Len(runs) : Complete(r)
    \/ \E r \in 1..Len(runs) : Fail(r)

Spec == Init /\ [][Next]_vars

\* The task function called once more for an execution id that already has a
\* task: workflow_service.execute_workflow(thread_id) takes any id.
Resubmit(t) ==
    /\ Len(runs) < MaxRuns
    /\ runs' = Append(runs, NewRun(t))
    /\ UNCHANGED <<executor, mcp_manager, upload_dir, canva_service, auth, fn_input, fn_output, workflows, graphs, threads, checkpoints>>

NextResubmit ==
    \/ Next
    \/ \E t \in 1..Len(threads) : Resubmit(t)

SpecResubmit == Init /\ [][NextResubmit]_vars

\* The condition router applied to a message list.
RouterContents ==
    {EmptyText, <<"Y", "e", "s">>, <<"n", "o">>, <<"T", "R", "U", "E">>,
     <<"e", "y", "e", "s">>, <<"t", "r", "u">>}

RouterMessages ==
    {HumanMessage(c) : c \in RouterContents} \cup {AIMessage(c) : c \in RouterContents}

MessageLists == UNION {[1..n -> RouterMessages] : n \in 0..MaxMsgs}

InitRouter ==
    /\ InitProgram
    /\ InitIdle
    /\ fn_input \in MessageLists
    /\ fn_output = <<>>

ApplyRouter ==
    /\ fn_output = <<>>
    /\ fn_output' = <<Router(fn_input)>>
    /\ UNCHANGED <<workflows, graphs, threads, runs, checkpoints, executor, mcp_manager, upload_dir, canva_service, auth, fn_input>>

SpecRouter == InitRouter /\ [][ApplyRouter]_vars

\* ------------------------------------------- the parser on a model answer
\* The text json.dumps writes for a value.
ValueLiteral(v) == IF v = "S:fenced" THEN FencedLiteral ELSE <<v>>

RECURSIVE JoinPairs(_, _)
JoinPairs(pairs, i) ==
    IF i > Len(pairs) THEN <<>>
    ELSE (IF i > 1 THEN <<",">> ELSE <<>>)
         \o <<pairs[i][1]>> \o ValueLiteral(pairs[i][2])
         \o JoinPairs(pairs, i + 1)

ObjectText(pairs) == <<"{">> \o JoinPairs(pairs, 1) \o <<"}">>

PairLists == UNION {[1..n -> JsonKeys \X JsonValues] : n \in 0..MaxPairs}

\* What a model answers: an object, an object cut before its closing brace,
\* a number, plain text or nothing; bare, or in a fenced block (untagged,
\* tagged json, or never closed); with prose before or after it or without;
\* with or without whitespace around the whole.
Answers ==
    [kind : {"object", "truncated"}, pairs : PairLists,
     fence : {"none", "untagged", "tagged", "unclosed"},
     prose : {"none", "before", "after"}, padded : BOOLEAN]
    \cup [kind : {"number", "plain", "empty"}, pairs : {<<>>},
          fence : {"none", "untagged", "tagged", "unclosed"},
          prose : {"none", "before", "after"}, padded : BOOLEAN]

BodyText(answer) ==
    CASE answer.kind = "object" -> ObjectText(answer.pairs)
      [] answer.kind = "truncated" -> <<"{">> \o JoinPairs(answer.pairs, 1)
      [] answer.kind = "number" -> <<"N:1">>
      [] answer.kind = "plain" -> <<"a">>
      [] OTHER -> <<>>

BlockText(answer) ==
    CASE answer.fence = "untagged" ->
            <<Fence, "\n">> \o BodyText(answer) \o <<"\n", Fence>>
      [] answer.fence = "tagged" ->
            <<Fence, "json", "\n">> \o BodyText(answer) \o <<"\n", Fence>>
      [] answer.fence = "unclosed" ->
            <<Fence, "json", "\n">> \o BodyText(answer)
      [] OTHER -> BodyText(answer)

AnswerText(answer) ==
    LET block == BlockText(answer)
        text == CASE answer.prose = "before" -> <<"a", ":", "\n">> \o block
                  [] answer.prose = "after" -> block \o <<"\n", "a">>
                  [] OTHER -> block
    IN  IF answer.padded THEN <<" ">> \o text \o <<"\n">> ELSE text

\* One call of parse_llm_response: what it returns, or what it raises.
ParserCall(response_content) ==
    IF ParseRaises(response_content)
    THEN Raised(JsonRecursionError)
    ELSE Returned(ParseLLMResponse(response_content))

InitParser ==
    /\ InitProgram
    /\ InitIdle
    /\ fn_input \in Answers
    /\ fn_output = <<>>

ApplyParser ==
    /\ fn_output = <<>>
    /\ fn_output' = <<ParserCall(AnswerText(fn_input))>>
    /\ UNCHANGED <<workflows, graphs, threads, runs, checkpoints, executor,
                   mcp_manager, upload_dir, canva_service, auth, fn_input>>

SpecParser == InitParser /\ [][ApplyParser]_vars

\* json.dumps of a string, of a dict or of None: the literal json.loads
\* reads back as that value.
JsonDumps(value) == CHOOSE v \in JsonValues : ValueOf(v) = value

\* The three fields written as they are asked of the model:
\* json.dumps({"enhanced_text": .., "design_intent": .., "canva_instructions": ..})
EncodeFields(enhanced_text, design_intent, design_instructions) ==
    <<<<"K:enhanced_text", JsonDumps(JsonStr(enhanced_text))>>,
      <<"K:design_intent", JsonDumps(JsonStr(design_intent))>>,
      <<"K:canva_instructions",
        JsonDumps(IF design_instructions = NoneDict
                  THEN JsonNull
                  ELSE JsonObj(design_instructions))>>>>

FieldTexts == {EmptyText, <<"H", "i">>, <<"greet">>, FencedText}
FieldInstructions == {NoneDict, EmptyDict, PosterInstructions}

\* A triple of fields and the way its object is put into a fenced block.
Encodings ==
    [enhanced_text : FieldTexts, design_intent : FieldTexts,
     design_instructions : FieldInstructions,
     fence : {"untagged", "tagged"}, prose : {"none", "before", "after"},
     padded : BOOLEAN]

EncodedAnswer(e) ==
    [kind |-> "object",
     pairs |-> EncodeFields(e.enhanced_text, e.design_intent, e.design_instructions),
     fence |-> e.fence, prose |-> e.prose, padded |-> e.padded]

InitRoundTrip ==
    /\ InitProgram
    /\ InitIdle
    /\ fn_input \in Encodings
    /\ fn_output = <<>>

ApplyRoundTrip ==
    /\ fn_output = <<>>
    /\ fn_output' = <<ParserCall(AnswerText(EncodedAnswer(fn_input)))>>
    /\ UNCHANGED <<workflows, graphs, threads, runs, checkpoints, executor,
                   mcp_manager, upload_dir, canva_service, auth, fn_input>>

SpecRoundTrip == InitRoundTrip /\ [][ApplyRoundTrip]_vars

\* ------------------------------------------------- the input-text handler
\* An input-text node as a graph stores it (its config with or without a
\* static text, its literal value unset, a mapping or a plain string) and the
\* input_data of the request.
InputTextCases ==
    [config : {EmptyDict, [text |-> EmptyText], [text |-> <<"Hello">>]},
     value : {NoValue, MapValue(EmptyText), MapValue(<<"Hi">>),
              StrValue(EmptyText), StrValue(<<"lit">>)},
     input_data : {EmptyDict, [message |-> <<"Y", "e", "s">>],
                   [text |-> EmptyText], [text |-> <<"H", "i">>],
                   [text |-> <<"H", "i">>, message |-> <<"Y", "e", "s">>],
                   [text |-> EmptyText, message |-> <<"Y", "e", "s">>]}]

\* The handler _build_graph makes for the node, called on the state the
\* driver starts with.
InputTextCall(case) ==
    InputTextNode(MergedConfig(GraphNode("a-input", "input_text", case.config, case.value)),
                  InitialState(case.input_data))

InitInputText ==
    /\ InitProgram
    /\ InitIdle
    /\ fn_input \in InputTextCases
    /\ fn_output = <<>>

ApplyInputText ==
    /\ fn_output = <<>>
    /\ fn_output' = <<InputTextCall(fn_input)>>
    /\ UNCHANGED <<workflows, graphs, threads, runs, checkpoints, executor,
                   mcp_manager, upload_dir, canva_service, auth, fn_input>>

SpecInputText == InitInputText /\ [][ApplyInputText]_vars

\* ------------------------------------------- provider and model selection
ConfiguredProviders == {"none", "openai", "anthropic", "google", "invalid_provider"}
ConfiguredModels ==
    {"none", "gpt-4o", "gpt-4o-mini", "claude-3-5-sonnet-latest", "bogus"}

\* A model step, the provider and the model its config names ("none": the
\* key is missing), and the answer the model gives when it is called.
Selections ==
    [type : {"llm", "llm_transform"}, provider : ConfiguredProviders,
     model : ConfiguredModels, answer : {PlainAnswer, StructuredAnswer}]

SelectionConfig(sel) ==
    Merge(IF sel.provider = "none" THEN EmptyDict ELSE [provider |-> sel.provider],
          IF sel.model = "none" THEN EmptyDict ELSE [model |-> sel.model])

\* The step's handler is made and called once, the model answering: the
\* client get_llm was asked for, and the handler's outcome.
SelectionCall(sel) ==
    LET node_config == SelectionConfig(sel)
    IN  [llm |-> GetLlm(ResolveProvider(node_config),
                        ResolveModel(sel.type, node_config)),
         outcome |-> RunHandler([type |-> sel.type, config |-> node_config],
                                InitialState([message |-> <<"Y", "e", "s">>]),
                                EnvCall(ModelReturns(sel.answer), NoCanvaCall))]

InitSelection ==
    /\ InitProgram
    /\ InitIdle
    /\ fn_input \in Selections
    /\ fn_output = <<>>

ApplySelection ==
    /\ fn_output = <<>>
    /\ fn_output' = <<SelectionCall(fn_input)>>
    /\ UNCHANGED <<workflows, graphs, threads, runs, checkpoints, executor,
                   mcp_manager, upload_dir, canva_service, auth, fn_input>>

SpecSelection == InitSelection /\ [][ApplySelection]_vars

\* ------------------------------------------------- the design-tool client
\* What happens when initialize builds and connects the client.
Connections == {"connected", "refused", "import_error"}

\* MCPClientManager._load_token
LoadToken(m) ==
    IF m.token_file # NoToken THEN [m EXCEPT !.canva_token = m.token_file] ELSE m

\* MCPClientManager.initialize
ManagerInitialize(m, connection) ==
    IF m.initialized
    THEN m
    ELSE LET loaded == LoadToken(m)
         IN  IF loaded.canva_token = NoToken
             THEN [loaded EXCEPT !.initialized = TRUE]
             ELSE CASE connection = "connected" ->
                         [loaded EXCEPT !.client = ClientFor(loaded.canva_token),
                                        !.tools = ToolsOf(loaded.canva_token),
                                        !.initialized = TRUE]
                    [] connection = "import_error" ->
                         [loaded EXCEPT !.tools = {}]
                    [] OTHER ->
                         [loaded EXCEPT !.client = ClientFor(loaded.canva_token),
                                        !.tools = {}]

\* MCPClientManager.shutdown
ManagerShutdown(m) ==
    IF m.client # NoClient
    THEN [m EXCEPT !.client = NoClient, !.tools = {}, !.initialized = FALSE]
    ELSE m

\* MCPClientManager.set_canva_token; written: whether write_text succeeded.
ManagerSetToken(m, token, written, connection) ==
    ManagerInitialize(
        ManagerShutdown([m EXCEPT !.canva_token = token,
                                  !.token_file = IF written THEN token ELSE @]),
        connection)

\* MCPClientManager.get_tools: the manager after the call; the tools it
\* returns are the manager's tools then.
ManagerGetTools(m, connection) ==
    IF ~m.initialized THEN ManagerInitialize(m, connection) ELSE m

Called(m, op, token, connection) ==
    [m EXCEPT !.last = [op |-> op, token |-> token,
                        connects |-> connection = "connected"]]

UnchangedButManager ==
    UNCHANGED <<workflows, graphs, threads, runs, checkpoints, executor,
                upload_dir, canva_service, auth, fn_input, fn_output>>

\* lifespan start-up, or any other caller of initialize
Initialize(connection) ==
    /\ mcp_manager' =
          Called(ManagerInitialize(mcp_manager, connection), "initialize",
                 NoToken, connection)
    /\ UnchangedButManager

\* The OAuth callback: mcp_manager.set_canva_token(tokens["access_token"])
SetCanvaToken(token, written, connection) ==
    /\ mcp_manager' =
          Called(ManagerSetToken(mcp_manager, token, written, connection),
                 "set_canva_token", token, connection)
    /\ UnchangedButManager

\* lifespan shutdown
Shutdown ==
    /\ mcp_manager' = Called(ManagerShutdown(mcp_manager), "shutdown", NoToken,
                             "refused")
    /\ UnchangedButManager

\* get_mcp_tools, CanvaService._ensure_tools
GetTools(connection) ==
    /\ LET after == ManagerGetTools(mcp_manager, connection)
       IN  mcp_manager' =
              Called([after EXCEPT !.served = after.tools], "get_tools", NoToken,
                     connection)
    /\ UnchangedButManager

\* The tokens the authorization server issues, and the token a file left by
\* an earlier process holds.
Tokens == {"t1", "t2"}
OldToken == "t0"

InitManager ==
    /\ InitProgram
    /\ executor = NoExecutor
    /\ upload_dir = NoUploads
    /\ mcp_manager \in {NewManager(NoToken), NewManager(OldToken)}
    /\ canva_service = NewCanvaService
    /\ auth = NoAuth
    /\ fn_input = <<>>
    /\ fn_output = <<>>

NextManager ==
    \/ \E connection \in Connections : Initialize(connection)
    \/ \E token \in Tokens, written \in BOOLEAN, connection \in Connections :
          SetCanvaToken(token, written, connection)
    \/ Shutdown
    \/ \E connection \in Connections : GetTools(connection)

SpecManager == InitManager /\ [][NextManager]_vars

\* ------------------------------------------------------ uploaded files
\* Path.glob's match of one name against a pattern: "*" stands for any run
\* of symbols, every other symbol for itself.
RECURSIVE GlobMatch(_, _)
GlobMatch(pattern, name) ==
    IF Len(pattern) = 0 THEN Len(name) = 0
    ELSE IF pattern[1] = "*"
    THEN \/ GlobMatch(Tail(pattern), name)
         \/ Len(name) > 0 /\ GlobMatch(pattern, Tail(name))
    ELSE /\ Len(name) > 0
         /\ name[1] = pattern[1]
         /\ GlobMatch(Tail(pattern), Tail(name))

\* A file's content: an image of an allowed type with its hash and
\* extension, or something validate_image rejects.
Contents ==
    {[valid |-> TRUE, hash |-> "h1", extension |-> "png"],
     [valid |-> TRUE, hash |-> "h2", extension |-> "jpeg"],
     [valid |-> FALSE, hash |-> "h3", extension |-> ""]}

\* f"{session_id}_{file_hash}.{extension}"
FileName(session_id, content) ==
    session_id \o <<"_", content.hash, ".", content.extension>>

\* The session ids requests carry: any string the client chooses.
SessionIds == {<<"s", "1">>, <<"s", "2">>, <<"s", "1", "_", "x">>, <<"*">>}

UnchangedButUploads ==
    UNCHANGED <<workflows, graphs, threads, runs, checkpoints, executor,
                mcp_manager, canva_service, auth, fn_input, fn_output>>

\* POST /uploads/image and /uploads/image-url: InputService.save_uploaded_file
\* and fetch_and_save_from_url; a rejected content raises ValueError and
\* nothing is written.
SaveUploadedFile(session_id, content) ==
    /\ upload_dir.saves < MaxUploads
    /\ upload_dir' =
          IF ~content.valid
          THEN [upload_dir EXCEPT
                   !.last = [op |-> "rejected", session_id |-> session_id,
                             count |-> 0, deleted |-> {}, kept |-> {},
                             before |-> upload_dir.files]]
          ELSE [upload_dir EXCEPT
                   !.files = @ \cup {FileName(session_id, content)},
                   !.saved = @ \cup {[session_id |-> session_id,
                                      name |-> FileName(session_id, content)]},
                   !.saves = @ + 1,
                   !.last = [op |-> "save", session_id |-> session_id,
                             count |-> 0, deleted |-> {}, kept |-> {},
                             before |-> upload_dir.files]]
    /\ UnchangedButUploads

\* DELETE /uploads/session/{session_id}: InputService.cleanup_session_files;
\* kept are the matched files whose unlink raised.
CleanupSessionFiles(session_id, kept) ==
    LET matched == {f \in upload_dir.files :
                       GlobMatch(session_id \o <<"_", "*">>, f)}
    IN  /\ kept \subseteq matched
        /\ upload_dir' =
              [upload_dir EXCEPT
                  !.files = @ \ (matched \ kept),
                  !.last = [op |-> "cleanup", session_id |-> session_id,
                            count |-> Cardinality(matched \ kept),
                            deleted |-> matched \ kept, kept |-> kept,
                            before |-> upload_dir.files]]
        /\ UnchangedButUploads

InitUploads ==
    /\ InitProgram
    /\ executor = NoExecutor
    /\ mcp_manager = NoManager
    /\ upload_dir = NoUploads
    /\ canva_service = NewCanvaService
    /\ auth = NoAuth
    /\ fn_input = <<>>
    /\ fn_output = <<>>

NextUploads ==
    \/ \E session_id \in SessionIds, content \in Contents :
          SaveUploadedFile(session_id, content)
    \/ \E session_id \in SessionIds : \E kept \in SUBSET upload_dir.files :
          CleanupSessionFiles(session_id, kept)

SpecUploads == InitUploads /\ [][NextUploads]_vars

\* ------------------------------------------------ runs of a stored graph
\* The catalog holds a workflow and its graph, a path or a graph with a
\* fan-out; execute requests start the runs.
InitStored ==
    /\ workflows = [w \in WorkflowIds |-> [phase |-> "exists", graph_id |-> "g1"]]
    /\ graphs \in {[g \in GraphIds |-> [phase |-> "exists", def |-> def]] :
                      def \in {PipelineGraph, FanOutGraph}}
    /\ threads = <<>>
    /\ runs = <<>>
    /\ checkpoints = <<>>
    /\ InitIdle
    /\ fn_input = <<>>
    /\ fn_output = <<>>

NextStored ==
    \/ \E w \in WorkflowIds, input_data \in InputPayloads : ExecuteRequest(w, input_data)
    \/ \E r \in 1..Len(runs) : GetThread(r)
    \/ \E r \in 1..Len(runs) : GetWorkflow(r)
    \/ \E r \in 1..Len(runs) : GetGraph(r)
    \/ \E r \in 1..Len(runs) : SetRunning(r)
    \/ \E r \in 1..Len(runs) : StartEngine(r)
    \/ \E r \in 1..Len(runs) : \E n \in runs[r].active : BeginStep(r, n)
    \/ \E r \in 1..Len(runs) : \E n \in runs[r].running :
          \E call \in CallsFor(runs[r].compiled.handlers[n].type) :
              FinishStep(r, n, call)
    \/ \E r \in 1..Len(runs) : Complete(r)
    \/ \E r \in 1..Len(runs) : Fail(r)

SpecStored == InitStored /\ [][NextStored]_vars

\* ------------------------------------------- one executor, several calls
\* GraphExecutor.compile: _build_graph and builder.compile; when either
\* raises, _compiled keeps its value.
CompileGraph(ex) ==
    LET builder == Compile(ex.graph)
    IN  [ex EXCEPT !.builds = @ + 1,
                   !.compiled = IF builder.error # NoError
                                THEN @
                                ELSE [build |-> ex.builds + 1, builder |-> builder]]

\* An execute that compiles whether or not a compiled graph is there.
AlwaysCompile(ex) == CompileGraph(ex)

\* if not self._compiled: self.compile()
LazyCompile(ex) == IF ex.compiled = NotCompiled THEN CompileGraph(ex) ELSE ex

\* What the environment does during the handler calls of one invocation.
InvocationCalls ==
    {EnvCall(m, CanvaCall(d, ToolMissing, None)) : m \in ModelCalls, d \in DesignCalls}

\* self._compiled.ainvoke(initial_state, config) from its first superstep on:
\* the scheduled handlers are called, their partial states merged, until the
\* invocation returns or raises.
RECURSIVE Invoke(_, _)
Invoke(run, call) ==
    IF run.pc # "engine"
    THEN run
    ELSE LET outcome == [n \in run.active |->
                           RunHandler(run.compiled.handlers[n], run.values, call)]
             raising == {n \in run.active : outcome[n].raised}
         IN  IF raising # {}
             THEN [run EXCEPT !.pc = "raised",
                              !.error = outcome[CHOOSE n \in raising : TRUE].error]
             ELSE Invoke(AfterSuperstep(
                             [run EXCEPT
                                 !.updates = [n \in run.active |-> outcome[n].update]]),
                         call)

\* How one call on the executor ended.
CallResult(name, thread_id, input_data, call, run) ==
    [name |-> name, thread_id |-> thread_id, input_data |-> input_data,
     call |-> call, raised |-> run.pc = "raised", error |-> run.error,
     values |-> run.values, result |-> run.result]

\* executor.compile() by the caller.
CompileCall ==
    LET compiled == CompileGraph(executor)
        error == Compile(executor.graph).error
        ended == [NewRun(0) EXCEPT
                     !.pc = IF error # NoError THEN "raised" ELSE "returned",
                     !.error = error]
    IN  /\ Len(executor.calls) < MaxCalls
        /\ executor' =
              [compiled EXCEPT
                  !.calls = Append(@, "compile"),
                  !.results = Append(@, CallResult("compile", 0, EmptyDict,
                                                   EnvCall(NoModelCall, NoCanvaCall),
                                                   ended))]
        /\ UNCHANGED <<workflows, graphs, threads, runs, checkpoints, mcp_manager,
                       upload_dir, canva_service, auth, fn_input, fn_output>>

\* executor.execute(input_data, thread_id) by the caller: the lazy compile,
\* the initial state merged into the state saved under the thread id, the
\* invocation, and the state the checkpointer holds after it.
ExecuteCall(thread_id, input_data, call) ==
    LET ex == LazyCompile(executor)
        values == InvocationInput(checkpoints[thread_id], InitialState(input_data))
        started == [NewRun(thread_id) EXCEPT
                       !.graph = ex.graph, !.executor = TRUE,
                       !.compiled = ex.compiled.builder,
                       !.values = values, !.active = {START}]
        first == [AfterSuperstep(started) EXCEPT
                     !.pc = IF @ = "returned" THEN @ ELSE "engine", !.step = 0]
        ended == IF ex.compiled = NotCompiled
                 THEN [NewRun(thread_id) EXCEPT
                          !.pc = "raised", !.error = Compile(ex.graph).error]
                 ELSE Invoke(first, call)
    IN  /\ Len(executor.calls) < MaxCalls
        /\ executor' =
              [ex EXCEPT
                  !.calls = Append(@, "execute"),
                  !.results = Append(@, CallResult("execute", thread_id, input_data,
                                                   call, ended))]
        /\ checkpoints' =
              IF ex.compiled = NotCompiled
              THEN checkpoints
              ELSE [checkpoints EXCEPT ![thread_id] = ended.values]
        /\ UNCHANGED <<workflows, graphs, threads, runs, mcp_manager, upload_dir,
                       canva_service, auth, fn_input, fn_output>>

\* A caller holds one executor for a graph of the catalog; the checkpointer
\* has nothing saved yet.
InitExecutor ==
    /\ workflows = [w \in WorkflowIds |-> NoWorkflow("absent")]
    /\ graphs = [g \in GraphIds |-> NoGraph("absent")]
    /\ threads = <<>>
    /\ runs = <<>>
    /\ checkpoints = [t \in 1..MaxThreads |-> EmptyDict]
    /\ executor \in {NewExecutor(def) : def \in GraphDefs}
    /\ mcp_manager = NoManager
    /\ upload_dir = NoUploads
    /\ canva_service = NewCanvaService
    /\ auth = NoAuth
    /\ fn_input = <<>>
    /\ fn_output = <<>>

NextExecutor ==
    \/ CompileCall
    \/ \E thread_id \in 1..MaxThreads, input_data \in InputPayloads,
          call \in InvocationCalls :
            ExecuteCall(thread_id, input_data, call)

SpecExecutor == InitExecutor /\ [][NextExecutor]_vars

\* ------------------------------------------------ _build_graph on a graph
\* The graphs handed to _build_graph: an input step, a condition node and
\* two tool steps between the start and the end node; the condition node has
\* up to MaxBranches outgoing edges, and one edge may name a deleted node.
\* The graphs of the catalog are built too.
BuildNodes ==
    <<GraphNode("start-1", "start", EmptyDict, NoValue),
      GraphNode("a-input", "input_text", EmptyDict, NoValue),
      GraphNode("k-cond", "condition", EmptyDict, NoValue),
      GraphNode("b-tool", "tool", EmptyDict, NoValue),
      GraphNode("c-tool", "tool", EmptyDict, NoValue),
      GraphNode("end-1", "end", EmptyDict, NoValue)>>

ConditionEdges ==
    {GraphEdge("k-cond", target, source_handle) :
        target \in {"b-tool", "c-tool", "end-1"},
        source_handle \in {"true", "false", ""}}

ConditionEdgeLists ==
    UNION {[1..n -> ConditionEdges] : n \in 0..MaxBranches}

DanglingEdges ==
    {<<>>, <<GraphEdge("b-tool", "gone", "")>>, <<GraphEdge("gone", "c-tool", "")>>}

BuildGraphs ==
    {[nodes |-> BuildNodes,
      edges |-> <<GraphEdge("start-1", "a-input", ""),
                  GraphEdge("a-input", "k-cond", "")>>
                \o branches
                \o <<GraphEdge("b-tool", "end-1", ""),
                     GraphEdge("c-tool", "end-1", "")>>
                \o dangling] :
        branches \in ConditionEdgeLists, dangling \in DanglingEdges}
    \cup GraphDefs \cup {FanOutGraph}

\* _build_graph on the graph, and compile on it: the builder each ends with.
BuildCall(graph) == [built |-> BuildGraph(graph), compiled |-> Compile(graph)]

InitBuild ==
    /\ InitProgram
    /\ InitIdle
    /\ fn_input \in BuildGraphs
    /\ fn_output = <<>>

ApplyBuild ==
    /\ fn_output = <<>>
    /\ fn_output' = <<BuildCall(fn_input)>>
    /\ UNCHANGED <<workflows, graphs, threads, runs, checkpoints, executor,
                   mcp_manager, upload_dir, canva_service, auth, fn_input>>

SpecBuild == InitBuild /\ [][ApplyBuild]_vars

\* ---------------------------------------------------- the export handler
ExportFailed == <<"Export failed">>

\* output_export_node when export_service.export_design raises: the except
\* clause answers with the configured type and the design URL.
OutputExportNodeFailing(node_config, state) ==
    LET config == ExportConfig(node_config)
        design_url == Get(state, "canva_design_url", EmptyText)
    IN  IF ~Truthy(design_url)
        THEN OutputExportNode(node_config, state)
        ELSE Returned([final_output |->
                 [type |-> config.output_type, url |-> design_url,
                  error |-> ExportFailed]])

\* An export step's configuration (the output kind under the field's name,
\* under the spelling "outputType", or not at all; "docx" is no output
\* kind), the design in the state, and whether the export service raises.
ExportCases ==
    [key : {"output_type", "outputType", "none"},
     kind : OutputTypes \cup {"docx"},
     design_url : {EmptyText, DesignUrl},
     export_url : {None, <<"https://x/e1">>},
     raises : BOOLEAN]

ExportCaseConfig(case) ==
    IF case.key = "none" THEN EmptyDict ELSE [k \in {case.key} |-> case.kind]

ExportCaseState(case) ==
    IF case.design_url = EmptyText
    THEN EmptyDict
    ELSE [canva_design_id |-> DesignId, canva_design_url |-> case.design_url,
          canva_export_url |-> case.export_url]

\* The handler create_output_export_node makes for the configuration, called
\* on the state.
ExportCall(case) ==
    IF case.raises
    THEN OutputExportNodeFailing(ExportCaseConfig(case), ExportCaseState(case))
    ELSE OutputExportNode(ExportCaseConfig(case), ExportCaseState(case))

InitExport ==
    /\ InitProgram
    /\ InitIdle
    /\ fn_input \in ExportCases
    /\ fn_output = <<>>

ApplyExport ==
    /\ fn_output = <<>>
    /\ fn_output' = <<ExportCall(fn_input)>>
    /\ UNCHANGED <<workflows, graphs, threads, runs, checkpoints, executor,
                   mcp_manager, upload_dir, canva_service, auth, fn_input>>

SpecExport == InitExport /\ [][ApplyExport]_vars

\* ------------------------------------------------------ the OAuth endpoints
\* secrets.token_urlsafe(16): the n-th state login issues. A callback may
\* also carry a state nobody issued.
StateOf(n) == <<"s", n>>
ForgedState == <<"s", 0>>
CallbackStates == {StateOf(n) : n \in 1..MaxLogins} \cup {ForgedState}

\* pending_flows left as it is by the callback.
KeepFlow(flows, state) == flows

\* pending_flows.pop(state)
PopFlow(flows, state) == flows \ {state}

UnchangedButAuth ==
    UNCHANGED <<workflows, graphs, threads, runs, checkpoints, executor,
                upload_dir, canva_service, fn_input, fn_output>>

\* GET /login: after the discovery it answers 500 without an authorization
\* endpoint, else it stores a verifier under a new state and redirects.
Login(endpoint_known) ==
    /\ auth.logins < MaxLogins
    /\ auth' = IF endpoint_known
               THEN [auth EXCEPT
                        !.logins = @ + 1,
                        !.issued = @ + 1,
                        !.pending_flows = @ \cup {StateOf(auth.issued + 1)}]
               ELSE [auth EXCEPT !.logins = @ + 1]
    /\ UNCHANGED mcp_manager
    /\ UnchangedButAuth

\* GET /callback up to its first await: an unknown state is answered 400,
\* a pending one is popped and the request goes on to the token endpoint.
CallbackBegin(state) ==
    /\ Len(auth.requests) < MaxCallbacks
    /\ auth' = IF state \notin auth.pending_flows
               THEN [auth EXCEPT
                        !.requests = Append(@, [state |-> state, accepted |-> FALSE,
                                                pc |-> "done", exchanged |-> FALSE,
                                                status |-> 400])]
               ELSE [auth EXCEPT
                        !.pending_flows = PopFlow(@, state),
                        !.requests = Append(@, [state |-> state, accepted |-> TRUE,
                                                pc |-> "exchange", exchanged |-> FALSE,
                                                status |-> 0])]
    /\ UNCHANGED mcp_manager
    /\ UnchangedButAuth

\* What the token exchange ends with: the tokens, an error status of the
\* token endpoint (HTTPStatusError), or any other exception.
Exchanges == {"tokens", "http_status_error", "error"}

\* GET /callback from the token exchange on: the token is handed to the
\* manager, an HTTPStatusError is answered 400, another exception 500.
CallbackExchange(i, exchange, token, written, connection) ==
    /\ auth.requests[i].pc = "exchange"
    /\ auth' = [auth EXCEPT
                  !.requests[i] =
                      [@ EXCEPT !.pc = "done", !.exchanged = TRUE,
                                !.status = CASE exchange = "tokens" -> 200
                                             [] exchange = "http_status_error" -> 400
                                             [] OTHER -> 500]]
    /\ mcp_manager' =
          IF exchange = "tokens"
          THEN Called(ManagerSetToken(mcp_manager, token, written, connection),
                      "set_canva_token", token, connection)
          ELSE mcp_manager
    /\ UnchangedButAuth

InitAuth ==
    /\ InitProgram
    /\ InitIdle
    /\ fn_input = <<>>
    /\ fn_output = <<>>

NextAuth ==
    \/ \E endpoint_known \in BOOLEAN : Login(endpoint_known)
    \/ \E state \in CallbackStates : CallbackBegin(state)
    \/ \E i \in 1..Len(auth.requests), exchange \in Exchanges, token \in Tokens,
          written \in BOOLEAN, connection \in Connections :
          CallbackExchange(i, exchange, token, written, connection)

SpecAuth == InitAuth /\ [][NextAuth]_vars

\* ------------------------------------------------ the design-tool service
\* CanvaService._ensure_tools: the tools are fetched from the manager only
\* while the service holds none. The result is the service and the manager
\* after the call.
EnsureTools(service, m, connection) ==
    IF service.tools = {}
    THEN LET after == ManagerGetTools(m, connection)
         IN  [service |-> [service EXCEPT !.tools = after.tools],
              manager |-> Called([after EXCEPT !.served = after.tools],
                                 "get_tools", NoToken, connection)]
    ELSE [service |-> service, manager |-> m]

\* self._tools.get("canva_create_design"): the tool object of that name the
\* service holds, as a set (empty: None).
CreateTool(service) == {t \in service.tools : t.name = "canva_create_design"}

\* CanvaService.create_design: the tools are ensured, and the tool the
\* service holds is invoked (without one the answer is a mock response).
CreateDesignCall(connection) ==
    /\ Len(canva_service.calls) < MaxDesignOps
    /\ \E ensured \in {EnsureTools(canva_service, mcp_manager, connection)} :
          /\ mcp_manager' = ensured.manager
          /\ canva_service' =
                [ensured.service EXCEPT
                    !.calls = Append(@, [used |-> CreateTool(ensured.service),
                                         current |-> ensured.manager.tools])]
    /\ UNCHANGED <<workflows, graphs, threads, runs, checkpoints, executor,
                   upload_dir, auth, fn_input, fn_output>>

InitCanva ==
    /\ InitProgram
    /\ executor = NoExecutor
    /\ upload_dir = NoUploads
    /\ canva_service = NewCanvaService
    /\ auth = NoAuth
    /\ mcp_manager \in {NewManager(NoToken), NewManager(OldToken)}
    /\ fn_input = <<>>
    /\ fn_output = <<>>

NextCanva ==
    \/ \E connection \in Connections : CreateDesignCall(connection)
    \/ \E connection \in Connections : Initialize(connection)
    \/ \E token \in Tokens, written \in BOOLEAN, connection \in Connections :
          SetCanvaToken(token, written, connection)
    \/ Shutdown

SpecCanva == InitCanva /\ [][NextCanva]_vars

\* ------------------------------------------------------------ properties
Runs == 1..Len(runs)
ThreadOf(r) == threads[runs[r].thread_id]
LastCall(r) == runs[r].calls[Len(runs[r].calls)]
HandlerType(r, n) == runs[r].compiled.handlers[n].type

StatusSteps ==
    {<<"pending", "running">>, <<"running", "completed">>,
     <<"running", "failed">>, <<"pending", "failed">>}

LifecycleStep ==
    /\ \A t \in 1..Len(threads) :
          threads'[t].status # threads[t].status
              => <<threads[t].status, threads'[t].status>> \in StatusSteps
    /\ \A t \in (Len(threads) + 1)..Len(threads') : threads'[t].status = "pending"

RunningBeforeEngine ==
    \A r \in Runs :
        /\ runs[r].executor => ThreadOf(r).status # "pending"
        /\ runs[r].pc \in {"running", "engine", "returned", "raised"}
               => ThreadOf(r).status = "running"

\* C1: a record is created pending; its status changes only along
\* pending->running, running->completed, running->failed and pending->failed;
\* it is running from before the executor is built until the task's last save;
\* a completed or failed record never changes its status again.
C1_Lifecycle == [](RunningBeforeEngine) /\ [][LifecycleStep]_vars

C1_Witness ==
    \E t1 \in 1..Len(threads), r \in Runs :
        /\ threads[t1].status = "completed"
        /\ runs[r].thread_id # t1
        /\ runs[r].executor
        /\ ThreadOf(r).status = "failed"

\* C2: once the background task of a record has ended, by returning or by an
\* exception that escapes it, the record is completed or failed; nothing else
\* writes the record, so a record the task leaves pending or running stays so
\* forever.
C2_TaskEndsSettled ==
    \A r \in Runs :
        runs[r].pc \in {"done", "crashed"}
            => ThreadOf(r).status \in {"completed", "failed"}

C2_Witness ==
    \E r \in Runs :
        /\ runs[r].pc = "crashed"
        /\ ThreadOf(r).status = "pending"
        /\ ThreadOf(r).error_message = None

NoGraphIdStep(r) ==
    /\ runs[r].pc = "thread"
    /\ runs'[r].pc # "thread"
    /\ workflows[runs[r].thread.workflow_id].phase = "exists"
    /\ workflows[runs[r].thread.workflow_id].graph_id = NoGraphId

EndsFailed(r, message) ==
    /\ runs'[r].pc = "done"
    /\ threads[runs[r].thread_id].status = "pending"
    /\ threads'[runs[r].thread_id].status = "failed"
    /\ threads'[runs[r].thread_id].error_message = message
    /\ ~runs'[r].executor
    /\ runs'[r].trace = <<>>

NeverStarted(message) ==
    \A r \in Runs :
        runs[r].pc = "done" /\ ThreadOf(r).error_message = message
            => /\ ThreadOf(r).status = "failed"
               /\ ~runs[r].executor
               /\ runs[r].trace = <<>>

\* C3: when the task finds the workflow without a graph_id, it ends there: the
\* record goes from pending to failed with the message "Workflow has no graph
\* configuration", no executor was built, no handler was called, and the
\* record stays failed.
C3_NoGraphId ==
    /\ [][\A r \in Runs :
            NoGraphIdStep(r)
                => EndsFailed(r, <<"Workflow has no graph configuration">>)]_vars
    /\ [](NeverStarted(<<"Workflow has no graph configuration">>))

C3_Witness ==
    \E r \in Runs :
        /\ runs[r].pc = "done"
        /\ ThreadOf(r).status = "failed"
        /\ ThreadOf(r).error_message = <<"Workflow has no graph configuration">>
        /\ workflows[ThreadOf(r).workflow_id].graph_id = NoGraphId
        /\ workflows[ThreadOf(r).workflow_id].phase = "exists"

WorkflowMissingStep(r) ==
    /\ runs[r].pc = "thread"
    /\ runs'[r].pc # "thread"
    /\ workflows[runs[r].thread.workflow_id].phase # "exists"

\* The workflow names a graph, and no graph document has that id.
GraphMissingStep(r) ==
    /\ runs[r].pc = "workflow"
    /\ runs'[r].pc # "workflow"
    /\ runs[r].graph_id \in GraphIds => graphs[runs[r].graph_id].phase # "exists"

\* C4: when the task finds the workflow document missing, or no graph
\* document for the workflow's graph_id, it ends there: the record goes from
\* pending to failed with the message of that error ("Workflow not found",
\* "Graph not found"), the messages of the structural errors differ from one
\* another, and no executor was built.
C4_StructuralErrors ==
    /\ [][\A r \in Runs :
            /\ WorkflowMissingStep(r) => EndsFailed(r, <<"Workflow not found">>)
            /\ GraphMissingStep(r) => EndsFailed(r, <<"Graph not found">>)]_vars
    /\ [](/\ NeverStarted(<<"Workflow not found">>)
          /\ NeverStarted(<<"Graph not found">>)
          /\ WorkflowNotFound # GraphNotFound
          /\ WorkflowNotFound # NoGraphConfiguration
          /\ GraphNotFound # NoGraphConfiguration)

C4_Witness ==
    \E r \in Runs :
        /\ runs[r].pc = "crashed"
        /\ runs[r].graph_id = MalformedId
        /\ ~runs[r].executor
        /\ ThreadOf(r).status # "failed"

\* C5: two runs of the task for the same execution id never have handlers
\* executing at the same time.
C5_OneEnginePerId ==
    \A r1 \in Runs, r2 \in Runs :
        r1 # r2 /\ runs[r1].thread_id = runs[r2].thread_id
            => ~(runs[r1].running # {} /\ runs[r2].running # {})

C5_Witness ==
    \E r1 \in Runs, r2 \in Runs :
        /\ r1 # r2
        /\ runs[r1].thread_id = runs[r2].thread_id
        /\ runs[r1].running # {}
        /\ runs[r2].running # {}
        /\ ThreadOf(r1).status = "running"

\* The last call that ended in run r was the model call of an llm-transform
\* step, and the model raised.
ModelRaised(r) ==
    /\ runs[r].calls # <<>>
    /\ HandlerType(r, LastCall(r).node) = "llm_transform"
    /\ ResolveProvider(runs[r].compiled.handlers[LastCall(r).node].config) # "google"
    /\ ~LastCall(r).call.model.ok

\* C6: when the model call of an llm-transform step raises, the invocation
\* raises with that exception: no handler is running, no step began after
\* the transform step, the step wrote no key, and the task ends with the record
\* failed and error_message equal to the exception's message.
C6_ModelFailure ==
    \A r \in Runs :
        ModelRaised(r) =>
            /\ runs[r].pc \in {"raised", "done"}
            /\ runs[r].error = LastCall(r).call.model.error
            /\ runs[r].running = {}
            /\ runs[r].trace[Len(runs[r].trace)] = LastCall(r).node
            /\ "enhanced_text" \notin runs[r].written
            /\ runs[r].result = EmptyDict
            /\ runs[r].pc = "raised" => ThreadOf(r).status = "running"
            /\ runs[r].pc = "done" =>
                  /\ ThreadOf(r).status = "failed"
                  /\ ThreadOf(r).error_message = LastCall(r).call.model.error

C6_Witness ==
    \E r \in Runs :
        /\ ModelRaised(r)
        /\ runs[r].pc = "done"
        /\ ThreadOf(r).status = "failed"
        /\ ThreadOf(r).error_message = ModelTimeout

\* Call i of run r was a design step's create operation during which the
\* design tool raised.
DesignFailed(r, i) ==
    /\ HandlerType(r, runs[r].calls[i].node) = "canva_mcp"
    /\ Get(runs[r].compiled.handlers[runs[r].calls[i].node].config,
           "operation", "create") = "create"
    /\ runs[r].calls[i].call.canva.design.kind = "raises"

ExportRan(r, i) ==
    /\ Len(runs[r].calls) > i
    /\ HandlerType(r, runs[r].calls[i + 1].node) = "output_export"

\* After a failed create the invocation has not raised, it does not end before
\* the export step that follows has run, and that step writes a final_output
\* whose error is "No design URL available".
ExportReportsNoUrl(r, i) ==
    /\ runs[r].pc \in {"engine", "returned", "done"}
    /\ runs[r].error = None
    /\ runs[r].values["canva_success"] = FALSE
    /\ runs[r].pc \in {"returned", "done"} => ExportRan(r, i)
    /\ ExportRan(r, i) =>
          runs[r].values["final_output"].error = <<"No design URL available">>

Affirmative(content) ==
    Contains(Lower(content), <<"y", "e", "s">>)
        \/ Contains(Lower(content), <<"t", "r", "u", "e">>)

AIMessages(messages) == {i \in 1..Len(messages) : messages[i].role = "ai"}

MostRecentAIAffirms(messages) ==
    \E i \in AIMessages(messages) :
        /\ \A j \in AIMessages(messages) : j <= i
        /\ Affirmative(messages[i].content)

LastIsAIAndAffirms(messages) ==
    /\ Len(messages) > 0
    /\ messages[Len(messages)].role = "ai"
    /\ Affirmative(messages[Len(messages)].content)

ReturnedRun(r) ==
    \/ runs[r].pc = "returned"
    \/ runs[r].pc = "done" /\ runs[r].executor /\ runs[r].error = None

SeededKeys == {"messages", "current_node", "input_data", "output_data"}

PipelineSucceeded(r) ==
    /\ ReturnedRun(r)
    /\ runs[r].graph = PipelineGraph
    /\ Len(runs[r].calls) = 4
    /\ runs[r].calls[2].call.model = ModelReturns(StructuredAnswer)
    /\ runs[r].calls[3].call.canva.design.kind = "ok"
    /\ runs[r].calls[3].call.canva.design.success
    /\ Truthy(runs[r].calls[3].call.canva.design.design_url)

DesignUrlOf(r) == runs[r].calls[3].call.canva.design.design_url

CompileOnlyFirst ==
    \A i \in 2..Len(executor.calls) : executor.calls[i] = "execute"

Rerun(i, j) ==
    LET a == executor.results[i]
        b == executor.results[j]
    IN  /\ i < j
        /\ a.name = "execute" /\ b.name = "execute"
        /\ a.thread_id = b.thread_id
        /\ a.input_data = b.input_data
        /\ a.call = b.call
        /\ ~a.raised /\ ~b.raised
        /\ \A k \in (i + 1)..(j - 1) :
              executor.results[k].thread_id # a.thread_id

Reruns ==
    {p \in (1..Len(executor.results)) \X (1..Len(executor.results)) :
        Rerun(p[1], p[2])}

MessagesOf(i) == Get(executor.results[i].values, "messages", <<>>)

\* C12 as stated: a second execute with the same execution id, after a
\* completion, re-runs from the initial state: its result equals the first
\* result, and its message list holds no message of the first run.
C12_RerunFromInitialState ==
    \A p \in Reruns :
        /\ executor.results[p[2]].result = executor.results[p[1]].result
        /\ \A m \in Range(MessagesOf(p[2])) : m \notin Range(MessagesOf(p[1]))

\* C12, amended: the second execute runs the graph again from START on the
\* state saved for the id with the initial state written onto it: its message
\* list is the message list the first run ended with, then the new human
\* message, then what the handlers append; the initial state's other keys are
\* overwritten.
C12_RerunOnSavedState ==
    \A p \in Reruns :
        LET first == MessagesOf(p[1])
            second == MessagesOf(p[2])
            input == executor.results[p[2]].input_data
        IN  /\ Len(second) > Len(first)
            /\ SubSeq(second, 1, Len(first)) = first
            /\ second[Len(first) + 1].role = "human"
            /\ second[Len(first) + 1].content = Get(input, "message", EmptyText)
            /\ executor.results[p[2]].values.input_data = input

\* Two executes of the pipeline for one id that both completed, the second
\* returning the first run's messages and its own.
C12_Witness ==
    \E p \in Reruns :
        /\ executor.graph = PipelineGraph
        /\ Len(executor.results[p[1]].result.messages) = 2
        /\ Len(executor.results[p[2]].result.messages) = 4

\* ------------------------------------------------------------------- C13
\* A step that is no condition and has two or more outgoing edges.
HasFanOut(graph) ==
    \E i, j \in 1..Len(graph.edges) :
        /\ i # j
        /\ graph.edges[i].source = graph.edges[j].source
        /\ graph.edges[i].target # graph.edges[j].target
        /\ \A k \in 1..Len(graph.nodes) :
              graph.nodes[k].id = graph.edges[i].source
              => graph.nodes[k].type # "condition"

StepUpdate(r, n) ==
    LET calls == runs'[r].calls
        i == CHOOSE j \in (Len(calls) - Cardinality(runs[r].active) + 1)..Len(calls) :
                 calls[j].node = n
    IN  RunHandler(runs[r].compiled.handlers[n], runs[r].values, calls[i].call).update

\* This step ends a superstep of run r and merges what its handlers returned.
MergeStep(r) ==
    /\ r \in 1..Len(runs)
    /\ runs[r].pc = "engine"
    /\ runs'[r].step = runs[r].step + 1

AllDistinctIds(messages) ==
    \A i, j \in 1..Len(messages) : i # j => messages[i].id # messages[j].id

\* C14: after each step of an execution every non-message key holds the
\* value the step returned for it, every key the step did not return is
\* unchanged, and the message list is the previous list with the step's new
\* message appended, nothing dropped, reordered or duplicated.
C14_StepFrame ==
    [][\A r \in 1..Len(runs) :
          MergeStep(r) =>
            LET old == runs[r].values
                new == runs'[r].values
                ran == runs[r].active
                returned == UNION {DOMAIN StepUpdate(r, n) : n \in ran}
                senders == {n \in ran : "messages" \in DOMAIN StepUpdate(r, n)}
                before == Get(old, "messages", <<>>)
                after == Get(new, "messages", <<>>)
            IN  /\ DOMAIN new = DOMAIN old \cup returned
                /\ \A n \in ran : \A k \in DOMAIN StepUpdate(r, n) \ {"messages"} :
                      new[k] = StepUpdate(r, n)[k]
                /\ \A k \in DOMAIN old \ returned : new[k] = old[k]
                /\ Len(after) = Len(before) + Cardinality(senders)
                /\ SubSeq(after, 1, Len(before)) = before
                /\ AllDistinctIds(after)
                /\ \A n \in senders :
                      LET sent == StepUpdate(r, n).messages
                      IN  \E i \in (Len(before) + 1)..Len(after) :
                              /\ after[i].role = sent[Len(sent)].role
                              /\ after[i].content = sent[Len(sent)].content
      ]_vars

\* The transform step of the pipeline has ended: its keys are in the state
\* next to the input step's, and its answer follows the human message.
C14_Witness ==
    \E r \in Runs :
        /\ runs[r].graph = PipelineGraph
        /\ Len(runs[r].calls) = 2
        /\ runs[r].pc = "engine"
        /\ {"input_text", "enhanced_text", "llm_raw_response"} \subseteq DOMAIN runs[r].values
        /\ Len(runs[r].values.messages) = 2
        /\ runs[r].values.messages[1].role = "human"
        /\ runs[r].values.messages[2].role = "ai"

\* ------------------------------------------------------------------- C15
\* The fields of the object have the wrong type: a text that is no string,
\* instructions that are neither an object nor null (of a repeated key the
\* last value counts).
WrongType(pairs) ==
    \E i \in 1..Len(pairs) :
        /\ \A j \in (i + 1)..Len(pairs) : pairs[j][1] # pairs[i][1]
        /\ \/ /\ pairs[i][1] \in {"K:enhanced_text", "K:design_intent"}
              /\ ValueOf(pairs[i][2]).t # "str"
           \/ /\ pairs[i][1] = "K:canva_instructions"
              /\ ValueOf(pairs[i][2]).t \notin {"obj", "null"}

\* The answer cannot be parsed as a structured object: plain text, a
\* malformed object, a block with non-object content, an object whose fields
\* have the wrong type.
Unparseable(answer) ==
    \/ answer.kind # "object"
    \/ WrongType(answer.pairs)

\* C15: for every text the parser returns a result and never raises, and
\* for a text that cannot be parsed as a structured object the result has
\* enhanced_text equal to the raw input, design_intent empty and the design
\* instructions null.
C15_ReturnsAndFallsBack ==
    fn_output # <<>> =>
        /\ ~fn_output[1].raised
        /\ Unparseable(fn_input) =>
              /\ fn_output[1].update.enhanced_text = AnswerText(fn_input)
              /\ fn_output[1].update.design_intent = EmptyText
              /\ fn_output[1].update.canva_instructions = NoneDict

\* The parser raised on a fenced object one of whose values is nested
\* deeper than the recursion limit.
C15_Witness ==
    /\ fn_output # <<>>
    /\ fn_input.kind = "object"
    /\ fn_input.fence = "tagged"
    /\ \E i \in 1..Len(fn_input.pairs) : fn_input.pairs[i][2] = "O:deep"
    /\ fn_output[1].raised

\* ------------------------------------------------------------------- C16
\* C16: for every triple of fields, written as a structured object in a
\* fenced block (tagged or untagged, with or without prose around it), the
\* parser yields the same three fields.
C16_RoundTrip ==
    fn_output # <<>> =>
        /\ ~fn_output[1].raised
        /\ fn_output[1].update.enhanced_text = fn_input.enhanced_text
        /\ fn_output[1].update.design_intent = fn_input.design_intent
        /\ fn_output[1].update.canva_instructions = fn_input.design_instructions

\* A triple whose enhanced_text holds three backticks came back as the whole
\* answer, without intent and instructions.
C16_Witness ==
    /\ fn_output # <<>>
    /\ fn_input.enhanced_text = FencedText
    /\ fn_input.design_intent = <<"greet">>
    /\ fn_input.design_instructions = PosterInstructions
    /\ fn_input.fence = "tagged"
    /\ ~fn_output[1].raised
    /\ fn_output[1].update.enhanced_text = Strip(AnswerText(EncodedAnswer(fn_input)))
    /\ fn_output[1].update.design_intent = EmptyText
    /\ fn_output[1].update.canva_instructions = NoneDict

\* ------------------------------------------------------------------- C17
\* The fallback chain: the request's text if non-empty, else the text of the
\* configured literal value if non-empty, else the configured static text,
\* else the empty string.
FallbackText(case) ==
    LET request == Get(case.input_data, "text", EmptyText)
        static == Get(case.config, "text", EmptyText)
    IN  IF request # EmptyText THEN request
        ELSE IF case.value.text # EmptyText THEN case.value.text
        ELSE static

\* C17: for every request payload and every step configuration, a literal
\* value that is a plain string included, the input-text handler never
\* raises and returns input_type "text" with input_text chosen by the
\* fallback chain.
C17_InputTextFallback ==
    fn_output # <<>> =>
        /\ ~fn_output[1].raised
        /\ fn_output[1].update.input_type = "text"
        /\ fn_output[1].update.input_text = FallbackText(fn_input)

\* The handler raised AttributeError: the literal value is a plain string
\* and the request carries no text.
C17_Witness ==
    /\ fn_output # <<>>
    /\ fn_input.value = StrValue(<<"lit">>)
    /\ fn_input.input_data = EmptyDict
    /\ fn_output[1].raised
    /\ fn_output[1].error = AttributeErrorStr

\* ------------------------------------------------------------------- C18
\* The selection has a configuration error: an unknown provider string, a
\* known provider with a model it does not support, a provider no model is
\* supported for.
UnknownProvider(sel) == sel.provider \notin Providers \cup {"none"}

UnsupportedModel(sel) ==
    /\ sel.model # "none"
    /\ ~ValidateModel(IF sel.provider \in Providers THEN sel.provider ELSE "openai",
                      sel.model)

\* C18: for every provider/model selection of a step's configuration the
\* configuration error is resolved by substituting a default (the default
\* provider, the default model) and never makes the execution fail.
C18_DefaultsSubstituted ==
    fn_output # <<>> =>
        /\ ~fn_output[1].llm.raised
        /\ ~fn_output[1].outcome.raised
        /\ UnknownProvider(fn_input) => fn_output[1].llm.provider = "openai"
        /\ UnsupportedModel(fn_input) => fn_output[1].llm.model = DefaultModel

\* A step configured with the provider google failed: get_llm raised.
C18_Witness ==
    /\ fn_output # <<>>
    /\ fn_input.type = "llm"
    /\ fn_input.provider = "google"
    /\ fn_output[1].llm.raised
    /\ fn_output[1].outcome.raised
    /\ fn_output[1].outcome.error = UnsupportedProvider

\* ------------------------------------------------------------------- C19
\* C19: after set_canva_token(t) completes, from any manager state, the old
\* client has been shut down and initialization has run again with t, so the
\* tools served afterwards come from a client configured with t (stated for
\* the calls during which the client can connect).
C19_TokenApplied ==
    (mcp_manager.last.op = "set_canva_token" /\ mcp_manager.last.connects)
    => /\ mcp_manager.initialized
       /\ mcp_manager.client = ClientFor(mcp_manager.last.token)
       /\ ManagerGetTools(mcp_manager, "connected").tools
             = ToolsOf(mcp_manager.last.token)

\* set_canva_token(t1) has completed on a manager that was initialized
\* without a token: there is no client and no tool.
C19_Witness ==
    /\ mcp_manager.last = [op |-> "set_canva_token", token |-> "t1", connects |-> TRUE]
    /\ mcp_manager.canva_token = "t1"
    /\ mcp_manager.token_file = "t1"
    /\ mcp_manager.initialized
    /\ mcp_manager.client = NoClient
    /\ mcp_manager.tools = {}

\* ------------------------------------------------------------------- C20
\* The files saved for a session that were in the directory before the
\* latest request.
FilesOf(session_id) ==
    {u.name : u \in {v \in upload_dir.saved : v.session_id = session_id}}
        \cap upload_dir.last.before

\* C20: for distinct session ids s and s2 and any sequence of uploads,
\* cleanup_session_files(s) deletes exactly the files saved for s, returns
\* their number, and leaves every file saved for s2 in place (stated for the
\* calls in which no unlink fails).
C20_CleanupOwnFilesOnly ==
    (upload_dir.last.op = "cleanup" /\ upload_dir.last.kept = {})
    => /\ upload_dir.last.deleted = FilesOf(upload_dir.last.session_id)
       /\ upload_dir.last.count = Cardinality(FilesOf(upload_dir.last.session_id))
       /\ \A s2 \in SessionIds \ {upload_dir.last.session_id} :
             FilesOf(s2) \subseteq upload_dir.files

\* The cleanup of session s1 deleted the file saved for session s1_x.
C20_Witness ==
    /\ upload_dir.last.op = "cleanup"
    /\ upload_dir.last.session_id = <<"s", "1">>
    /\ upload_dir.last.kept = {}
    /\ upload_dir.last.count = 2
    /\ \E u \in upload_dir.saved :
          /\ u.session_id = <<"s", "1", "_", "x">>
          /\ u.name \in upload_dir.last.deleted

\* ------------------------------------------------------------------- C21
\* The edges of the graph that leave the node, in the graph's order.
OutEdges(graph, id) == SelectSeq(graph.edges, LAMBDA e : e.source = id)

\* The ids of the graph's condition nodes, and those of them with at least
\* two outgoing edges.
ConditionNodes(graph) ==
    {graph.nodes[i].id : i \in {j \in 1..Len(graph.nodes) :
                                   graph.nodes[j].type = "condition"}}

Branching(graph) == {k \in ConditionNodes(graph) : Len(OutEdges(graph, k)) >= 2}

BranchExists(k) == <<"Branch with name router already exists for node ", k>>

\* C21: for every condition node with at least two outgoing edges, building
\* the graph registers exactly one conditional transition for the node: the
\* build returns a builder that holds one branch table for it, and no second
\* registration was refused.
C21_OneConditionalTransition ==
    fn_output # <<>> =>
        \A k \in Branching(fn_input) :
            /\ fn_output[1].built.error = NoError
            /\ k \in DOMAIN fn_output[1].built.branches

\* A graph whose condition node has two outgoing edges labelled "true" and
\* "false" was built, and the second registration for the node was refused.
C21_Witness ==
    /\ fn_output # <<>>
    /\ \E k \in Branching(fn_input) :
          /\ Len(OutEdges(fn_input, k)) = 2
          /\ {e.source_handle : e \in Range(OutEdges(fn_input, k))} = {"true", "false"}
          /\ fn_output[1].built.error = BranchExists(k)

\* ------------------------------------------------------------------- C22
\* What a declared id stands for in the executable graph: the sentinel for
\* a start or end node, the id itself for any other id.
TypeOf(graph, id) ==
    LET at == {i \in 1..Len(graph.nodes) : graph.nodes[i].id = id}
    IN  IF at = {} THEN "undeclared" ELSE graph.nodes[CHOOSE i \in at : TRUE].type

Resolved(graph, id) ==
    CASE TypeOf(graph, id) = "end" -> END
      [] TypeOf(graph, id) = "start" -> START
      [] OTHER -> id

\* The resolved targets of the node's outgoing edges labelled "true", and of
\* its other outgoing edges.
TrueTargets(graph, k) ==
    {Resolved(graph, e.target) :
        e \in {x \in Range(OutEdges(graph, k)) : x.source_handle = "true"}}

FalseTargets(graph, k) ==
    {Resolved(graph, e.target) :
        e \in {x \in Range(OutEdges(graph, k)) : x.source_handle # "true"}}

\* C22: for every condition node with at least two outgoing edges, the
\* branch table registered for it maps "true" to the resolved target of an
\* outgoing edge whose source_handle is "true" and "false" to the resolved
\* target of an outgoing edge with any other or no source_handle, an end
\* node resolving to END; it has no other key.
C22_BranchTable ==
    fn_output # <<>> =>
        \A k \in Branching(fn_input) \cap DOMAIN fn_output[1].built.branches :
            LET table == fn_output[1].built.branches[k]
            IN  /\ DOMAIN table \subseteq {"true", "false"}
                /\ "true" \in DOMAIN table <=> TrueTargets(fn_input, k) # {}
                /\ "false" \in DOMAIN table <=> FalseTargets(fn_input, k) # {}
                /\ "true" \in DOMAIN table => table["true"] \in TrueTargets(fn_input, k)
                /\ "false" \in DOMAIN table => table["false"] \in FalseTargets(fn_input, k)

\* A table was registered for a condition node whose "true" edge leads to the
\* end node and whose unlabelled edge leads to a tool step.
C22_Witness ==
    /\ fn_output # <<>>
    /\ \E k \in Branching(fn_input) \cap DOMAIN fn_output[1].built.branches :
          /\ fn_output[1].built.branches[k] = [true |-> END, false |-> "b-tool"]
          /\ \E e \in Range(OutEdges(fn_input, k)) :
                e.source_handle = "" /\ e.target = "b-tool"
          /\ \E e \in Range(OutEdges(fn_input, k)) :
                e.source_handle = "true" /\ e.target = "end-1"

\* ------------------------------------------------------------------- C23
\* The condition nodes with one outgoing edge.
SingleEdged(graph) == {k \in ConditionNodes(graph) : Len(OutEdges(graph, k)) = 1}

\* C23: a condition node with fewer than two outgoing edges is routed
\* unconditionally along its first outgoing edge: the built graph has a
\* transition from the node to that edge's target, and the build raises no
\* error.
C23_FirstEdgeRouting ==
    fn_output # <<>> =>
        \A k \in SingleEdged(fn_input) :
            /\ fn_output[1].built.error = NoError
            /\ <<k, Resolved(fn_input, OutEdges(fn_input, k)[1].target)>>
                   \in fn_output[1].built.edges

\* A graph whose condition node has one outgoing edge was built without an
\* error, and the builder holds no transition that leaves the node.
C23_Witness ==
    /\ fn_output # <<>>
    /\ \E k \in SingleEdged(fn_input) :
          /\ fn_output[1].built.error = NoError
          /\ k \notin DOMAIN fn_output[1].built.branches
          /\ \A e \in fn_output[1].built.edges : e[1] # k
          /\ fn_output[1].compiled.error # NoError

\* ------------------------------------------------------------------- C24
\* The ids the graph declares, and its edges that name another id.
DeclaredIds(graph) == {graph.nodes[i].id : i \in 1..Len(graph.nodes)}

UndeclaredEdges(graph) ==
    {e \in Range(graph.edges) :
        e.source \notin DeclaredIds(graph) \/ e.target \notin DeclaredIds(graph)}

\* C24: an edge whose source or target is no declared node id is dropped
\* when the graph is built: it is no transition of the built graph, and the
\* build succeeds.
C24_UndeclaredEdgeDropped ==
    fn_output # <<>> =>
        \A e \in UndeclaredEdges(fn_input) :
            /\ <<Resolved(fn_input, e.source), Resolved(fn_input, e.target)>>
                   \notin fn_output[1].built.edges
            /\ fn_output[1].built.error = NoError

\* A graph without a condition node and with an edge to a deleted node was
\* built: the edge is a transition of the builder, and compile raised.
C24_Witness ==
    /\ fn_output # <<>>
    /\ ConditionNodes(fn_input) = {}
    /\ \E e \in UndeclaredEdges(fn_input) :
          /\ <<e.source, e.target>> \in fn_output[1].built.edges
          /\ fn_output[1].built.error = NoError
          /\ fn_output[1].compiled.error = <<"Found edge ending at unknown node">>

\* ------------------------------------------------------------------- C25
\* The path the export handler took.
ExportPath(case) ==
    IF case.design_url = EmptyText THEN "no_design_url"
    ELSE IF case.raises THEN "export_failed"
    ELSE "success"

\* The configurations that request an output kind.
RequestsKind(case) == case.key # "none" /\ case.kind \in OutputTypes

\* C25: for every export step configuration that requests an output kind
\* (link, pdf or image), under the field's name or under the spelling
\* "outputType", the type of the final_output the handler writes is that
\* kind, on the success path, without a design URL and when the export fails.
C25_TypeIsRequestedKind ==
    (fn_output # <<>> /\ RequestsKind(fn_input)) =>
        /\ ~fn_output[1].raised
        /\ fn_output[1].update.final_output.type = fn_input.kind

\* The handler configured with {"outputType": "pdf"} wrote a final_output of
\* type "link" when the export failed.
C25_Witness ==
    /\ fn_output # <<>>
    /\ fn_input.key = "outputType"
    /\ fn_input.kind = "pdf"
    /\ ExportPath(fn_input) = "export_failed"
    /\ fn_output[1].update.final_output.type = "link"
    /\ fn_output[1].update.final_output.error = ExportFailed

\* ------------------------------------------------------------------- C26
\* The result the engine returned to the task of the execution record.
EngineResults(t) ==
    {runs[r].result : r \in {x \in Runs : runs[x].thread_id = t /\ runs[x].pc = "done"}}

\* C26: in every reachable state of an execution record, status completed
\* implies output_data is the result the engine returned and error_message
\* is unset; status failed implies error_message is set and output_data is
\* still empty; status pending or running implies error_message is unset and
\* output_data is empty.
C26_RecordFields ==
    \A t \in 1..Len(threads) :
        CASE threads[t].status = "completed" ->
                /\ threads[t].output_data \in EngineResults(t)
                /\ threads[t].error_message = None
          [] threads[t].status = "failed" ->
                /\ threads[t].error_message # None
                /\ threads[t].output_data = EmptyDict
          [] OTHER ->
                /\ threads[t].status \in {"pending", "running"}
                /\ threads[t].error_message = None
                /\ threads[t].output_data = EmptyDict

\* One execution completed with the engine's result while another one
\* failed with the message of a raised exception.
C26_Witness ==
    \E t, u \in 1..Len(threads) :
        /\ threads[t].status = "completed"
        /\ threads[t].output_data # EmptyDict
        /\ threads[u].status = "failed"
        /\ threads[u].error_message = ModelTimeout

\* ------------------------------------------------------------------- C27
\* The labels the router of create_condition_router returns.
RouterLabels == {"true", "false"}

\* C27: for every condition node for which a conditional transition is
\* registered, every label its router can return is a key of the registered
\* branch table.
C27_EveryLabelHasTarget ==
    fn_output # <<>> =>
        \A k \in DOMAIN fn_output[1].built.branches :
            RouterLabels \subseteq DOMAIN fn_output[1].built.branches[k]

\* A table was registered for a condition node none of whose two outgoing
\* edges is labelled "true": it has no target for the label "true".
C27_Witness ==
    /\ fn_output # <<>>
    /\ \E k \in Branching(fn_input) \cap DOMAIN fn_output[1].built.branches :
          /\ Len(OutEdges(fn_input, k)) = 2
          /\ TrueTargets(fn_input, k) = {}
          /\ DOMAIN fn_output[1].built.branches[k] = {"false"}

\* ------------------------------------------------------------------- C28
\* The ends a transition of the builder may have: the sentinels and the ids
\* a handler was registered for.
Routable(builder) == builder.nodes \cup {START, END}

\* C28: after building, every transition of the executable graph, direct or
\* conditional, has as source and as target a sentinel or a node id a handler
\* was registered for; start, end and condition nodes are the only declared
\* nodes without a handler.
C28_TransitionsBetweenHandlers ==
    fn_output # <<>> =>
        LET builder == fn_output[1].built
        IN  /\ \A e \in builder.edges :
                  e[1] \in Routable(builder) /\ e[2] \in Routable(builder)
            /\ \A k \in DOMAIN builder.branches :
                  /\ k \in Routable(builder)
                  /\ \A l \in DOMAIN builder.branches[k] :
                        builder.branches[k][l] \in Routable(builder)
            /\ \A i \in 1..Len(fn_input.nodes) :
                  fn_input.nodes[i].id \notin builder.nodes
                      => fn_input.nodes[i].type \in {"start", "end", "condition"}

\* A graph all of whose edges name declared nodes was built without an
\* error: the edge into its condition node is a transition whose target has
\* no handler, and compile raised.
C28_Witness ==
    /\ fn_output # <<>>
    /\ UndeclaredEdges(fn_input) = {}
    /\ fn_output[1].built.error = NoError
    /\ \E k \in ConditionNodes(fn_input) :
          /\ <<"a-input", k>> \in fn_output[1].built.edges
          /\ k \notin fn_output[1].built.nodes
    /\ fn_output[1].compiled.error = <<"Found edge ending at unknown node">>

\* ------------------------------------------------------------------- C29
\* The callback requests that arrive in a step.
Arriving == (Len(auth.requests) + 1)..Len(auth'.requests)

\* C29: each state login issued is accepted by callback at most once. A
\* callback whose state is not in pending_flows is answered 400 before any
\* token exchange (and without touching the manager); a callback whose state
\* is pending removes it from pending_flows, and it stays removed whether
\* the token exchange then succeeds or fails; no two accepted callbacks carry
\* the same state, in every interleaving of login and callback requests.
C29_StateAcceptedOnce ==
    [][/\ \A i \in Arriving :
             LET request == auth'.requests[i]
             IN  IF request.state \notin auth.pending_flows
                 THEN /\ ~request.accepted
                      /\ request.status = 400
                      /\ ~request.exchanged
                      /\ auth'.pending_flows = auth.pending_flows
                      /\ mcp_manager' = mcp_manager
                 ELSE /\ request.accepted
                      /\ request.state \notin auth'.pending_flows
       /\ \A i \in 1..Len(auth'.requests) :
             /\ auth'.requests[i].accepted
                   => auth'.requests[i].state \notin auth'.pending_flows
             /\ auth'.requests[i].exchanged => auth'.requests[i].accepted
       /\ \A i, j \in 1..Len(auth'.requests) :
             (i # j /\ auth'.requests[i].accepted /\ auth'.requests[j].accepted)
                 => auth'.requests[i].state # auth'.requests[j].state]_vars

\* A callback with an issued state was accepted and its token exchange
\* failed; a later callback with the same state was answered 400 without an
\* exchange; the callback for another state stored its token.
C29_Witness ==
    /\ Len(auth.requests) = 3
    /\ auth.requests[1].accepted
    /\ auth.requests[1].status = 500
    /\ auth.requests[2].state = auth.requests[1].state
    /\ ~auth.requests[2].accepted
    /\ auth.requests[2].status = 400
    /\ ~auth.requests[2].exchanged
    /\ auth.requests[3].accepted
    /\ auth.requests[3].status = 200
    /\ mcp_manager.canva_token \in Tokens
    /\ auth.pending_flows = {}

\* ------------------------------------------------------------------- C30
\* C30: CanvaService never invokes a tool object of a previous client: in
\* every design operation, after any shutdown, initialize and token change
\* of the manager, the tool the service invokes is one of the tools the
\* manager holds at that time.
C30_ToolsAreCurrent ==
    \A i \in 1..Len(canva_service.calls) :
        canva_service.calls[i].used \subseteq canva_service.calls[i].current

\* The service invoked a tool of the client configured with the old token
\* after the manager had been re-initialized with a new token and served
\* that client's tools.
C30_Witness ==
    \E i \in 1..Len(canva_service.calls) :
        /\ canva_service.calls[i].used = ToolsOf(OldToken)
        /\ canva_service.calls[i].current \in {ToolsOf(t) : t \in Tokens}
        /\ mcp_manager.client \in {ClientFor(t) : t \in Tokens}

====
